---------------------------- MODULE Spec2Model ----------------------------
(***************************************************************************)
(* Forecasting and execution-decision engine                                *)
(* (src/backend/services/forecasting).                                      *)
(*                                                                          *)
(*   Part 1  ExecutionTrigger.evaluate                    SpecTrigger      *)
(*   Part 2  QuantileForecaster on its own                SpecForecaster   *)
(*           TransferLearner on its own                   SpecLearner      *)
(*           the orchestrator, one request at a time      SpecService      *)
(*   Part 3  the orchestrator under concurrent requests   SpecConc         *)
(*   Part 4  SyntheticAugmenter on its own                SpecAugmenter    *)
(*           LiquidityModel on its own                    SpecLiquidity    *)
(*           ForecastExplainer on its own                 SpecExplainer    *)
(*           calls that only read, all components         SpecReads        *)
(*   Part 5  the request boundary (schemas, routes)       SpecRoutes       *)
(*           predict on the learner's model during        SpecRace         *)
(*           fine_tune                                                     *)
(*                                                                          *)
(* Numbers.  Probabilities and thresholds are integers in units of 1e-4    *)
(* (PROB_ONE is 1.0).  Prices and quantiles of the trigger are integers in *)
(* units of 1e-9, the guard the code adds to the current price (EPS).      *)
(* mu and sigma are integers in units of 1e-6 (STAT_ONE is 1.0).           *)
(***************************************************************************)
EXTENDS Integers, Sequences, FiniteSets, TLC

VARIABLES
    trig,       \* ExecutionTrigger: thresholds of the instance and its last evaluate call
    heap,       \* QuantileForecaster instances, by object id
    learner,    \* the TransferLearner
    active,     \* ForecastingService.quantile_forecaster: id of the active forecaster
    disk,       \* content of the .npz file, or NoFile
    last,       \* the last call of Part 2 and what it returned or raised
    hist,       \* history of the learner: what has been called, last pre-trained stats
    nops,       \* number of the calls that a bound limits (fine_tune, transfer_learn)
    wr,         \* Part 3: the transfer_learn request in flight
    rd,         \* Part 3: the reading requests
    seen,       \* Part 3: snapshots of the forecasters that have been active
    liq,        \* Part 4: the LiquidityModel
    aug,        \* Part 4: the SyntheticAugmenter
    expl,       \* Part 4: the ForecastExplainer
    call        \* Parts 4 and 5: the last call (or request) and what it returned

vars == <<trig, heap, learner, active, disk, last, hist, nops, wr, rd, seen,
          liq, aug, expl, call>>

part1 == <<trig>>
part2 == <<heap, learner, active, disk, last, hist, nops>>
part3 == <<wr, rd, seen>>
part4 == <<liq, aug, expl, call>>

Min(a, b) == IF a <= b THEN a ELSE b
Max(a, b) == IF a >= b THEN a ELSE b

(***************************************************************************)
(*                     Part 1: ExecutionTrigger                            *)
(***************************************************************************)

PROB_ONE == 10000       \* 1.0 in probability units
EPS == 1                \* 1e-9 in price units

\* ExecutionTrigger.__init__: the default thresholds, and the custom ones the
\* tests construct (a low and a high direction threshold, a tight spread).
TriggerConfigs ==
    { [price_up_thr |-> 5500, price_down_thr |-> 5500, liq_thr |-> 5000, spread_max |-> 800],
      [price_up_thr |-> 3000, price_down_thr |-> 5500, liq_thr |-> 3000, spread_max |-> 800],
      [price_up_thr |-> 5500, price_down_thr |-> 5500, liq_thr |-> 5000, spread_max |-> 300] }

\* Inputs of evaluate.
UpProbs   == {2000, 3500, 5500, 7001}
DownProbs == {2000, 3000, 5500, 7000}
LiqProbs  == {3000, 5000, 7000, 8500}
Prices    == {0, 12, 99, 100}
Spreads   == {0, 1, 8, 9, 20}

LiquidityPredictions ==
    { [price_up_prob |-> ud[1], price_flat_prob |-> PROB_ONE - ud[1] - ud[2],
       price_down_prob |-> ud[2],
       liquidity_high_prob |-> l, liquidity_low_prob |-> PROB_ONE - l] :
         ud \in {x \in UpProbs \X DownProbs : x[1] + x[2] <= PROB_ONE}, l \in LiqProbs }

\* nan: p10, p50 and p90 hold nan, as in the QuantilePrediction that predict
\* returns for a window of one price (the three fields are then not used).
QuantilePredictions ==
    { [horizon_day |-> 1, nan |-> FALSE, p10 |-> 90, p50 |-> 90 + (s \div 2), p90 |-> 90 + s] :
          s \in Spreads }
    \cup { [horizon_day |-> 1, nan |-> TRUE, p10 |-> 0, p50 |-> 0, p90 |-> 0] }

\* spread_frac = (p90 - p10) / (current_price + 1e-9), compared with a bound
\* given in probability units; the denominator is positive for every price >= 0.
\* A comparison with nan is false.
SpreadFracAbove(q, price, bound) ==
    ~q.nan /\ (q.p90 - q.p10) * PROB_ONE > bound * (price + EPS)
SpreadFracBelow(q, price, bound) ==
    ~q.nan /\ (q.p90 - q.p10) * PROB_ONE < bound * (price + EPS)

\* round(x / y, 0) for y > 0, ties to even (Python's round on an exact tie).
RoundDiv(x, y) ==
    LET f == x \div y
        r == x - f * y
    IN  IF 2 * r < y THEN f
        ELSE IF 2 * r > y THEN f + 1
        ELSE IF f % 2 = 0 THEN f ELSE f + 1

\* The decision matrix: signal, confidence (in units of 1e-5, so that the
\* factors 0.5 and 0.4 stay exact) and timing, before the override.
DecisionMatrixStrictUp(t, q, l, price) ==
    LET liq_ok     == l.liquidity_high_prob >= t.liq_thr
        price_up   == l.price_up_prob > t.price_up_thr
        price_down == l.price_down_prob >= t.price_down_thr
    IN  IF price_up /\ liq_ok THEN
            [signal |-> "enter",
             confidence |-> 10 * Min(l.price_up_prob, l.liquidity_high_prob),
             timing |-> IF l.liquidity_high_prob > 7000 THEN "intraday" ELSE "next_open"]
        ELSE IF price_up /\ ~liq_ok THEN
            [signal |-> "defer", confidence |-> 5 * l.price_up_prob, timing |-> "wait_1_day"]
        ELSE IF price_down /\ liq_ok THEN
            [signal |-> "exit",
             confidence |-> 10 * Min(l.price_down_prob, l.liquidity_high_prob),
             timing |-> IF SpreadFracBelow(q, price, t.spread_max)
                        THEN "intraday" ELSE "next_close"]
        ELSE IF price_down /\ ~liq_ok THEN
            [signal |-> "defer", confidence |-> 4 * l.price_down_prob, timing |-> "wait_1_day"]
        ELSE
            [signal |-> "hold",
             confidence |-> 10 * (PROB_ONE - Max(l.price_up_prob, l.price_down_prob)),
             timing |-> "next_open"]

DecisionMatrix(t, q, l, price) ==
    LET liq_ok     == l.liquidity_high_prob >= t.liq_thr
        price_up   == l.price_up_prob >= t.price_up_thr
        price_down == l.price_down_prob >= t.price_down_thr
    IN  IF price_up /\ liq_ok THEN
            [signal |-> "enter",
             confidence |-> 10 * Min(l.price_up_prob, l.liquidity_high_prob),
             timing |-> IF l.liquidity_high_prob > 7000 THEN "intraday" ELSE "next_open"]
        ELSE IF price_up /\ ~liq_ok THEN
            [signal |-> "defer", confidence |-> 5 * l.price_up_prob, timing |-> "wait_1_day"]
        ELSE IF price_down /\ liq_ok THEN
            [signal |-> "exit",
             confidence |-> 10 * Min(l.price_down_prob, l.liquidity_high_prob),
             timing |-> IF SpreadFracBelow(q, price, t.spread_max)
                        THEN "intraday" ELSE "next_close"]
        ELSE IF price_down /\ ~liq_ok THEN
            [signal |-> "defer", confidence |-> 4 * l.price_down_prob, timing |-> "wait_1_day"]
        ELSE
            [signal |-> "hold",
             confidence |-> 10 * (PROB_ONE - Max(l.price_up_prob, l.price_down_prob)),
             timing |-> "next_open"]

\* The uncertainty override; override is TRUE when the marker is appended to
\* the reason.
UncertaintyOverrideInclusive(t, q, price, row) ==
    IF ~SpreadFracBelow(q, price, t.spread_max) /\ row.signal \in {"enter", "exit"}
    THEN [signal |-> "hold", confidence |-> row.confidence, timing |-> "wait_1_day",
          override |-> TRUE]
    ELSE [signal |-> row.signal, confidence |-> row.confidence, timing |-> row.timing,
          override |-> FALSE]

UncertaintyOverride(t, q, price, row) ==
    IF SpreadFracAbove(q, price, t.spread_max) /\ row.signal \in {"enter", "exit"}
    THEN [signal |-> "hold", confidence |-> row.confidence, timing |-> "wait_1_day",
          override |-> TRUE]
    ELSE [signal |-> row.signal, confidence |-> row.confidence, timing |-> row.timing,
          override |-> FALSE]

\* round(confidence, 4): confidence c in units of 1e-5.  A decimal tie (c ends
\* in 5) is no tie of the binary value that is rounded, which lies just above
\* or just below it: up says which.
RoundConfidence(c, up) ==
    IF c % 10 = 5 THEN (c \div 10) + (IF up THEN 1 ELSE 0) ELSE RoundDiv(c, 10)

evaluateRecomputed(t, q, l, price, up) ==
    LET row == DecisionMatrix(t, q, l, price)
        fin == UncertaintyOverride(t, q, price, row)
        c   == IF fin.override
               THEN 10 * (PROB_ONE - Max(l.price_up_prob, l.price_down_prob))
               ELSE fin.confidence
    IN  [signal |-> fin.signal,
         confidence |-> RoundConfidence(c, up),
         override |-> fin.override,
         timing |-> fin.timing,
         details |-> [nan |-> q.nan,
                      upside_pct |-> IF q.nan THEN 0
                                    ELSE RoundDiv((q.p50 - price) * PROB_ONE, price + EPS),
                      spread_frac_pct |-> IF q.nan THEN 0
                                         ELSE RoundDiv((q.p90 - q.p10) * PROB_ONE, price + EPS),
                      liq_high_prob |-> l.liquidity_high_prob,
                      price_up_prob |-> l.price_up_prob,
                      price_down_prob |-> l.price_down_prob]]

\* ExecutionTrigger.evaluate: the ExecutionSignal it returns.  details holds
\* upside_pct and spread_frac_pct in units of 0.01 percent (nan: the two are
\* nan, and the fields hold 0).
evaluate(t, q, l, price, up) ==
    LET row == DecisionMatrix(t, q, l, price)
        fin == UncertaintyOverride(t, q, price, row)
    IN  [signal |-> fin.signal,
         confidence |-> RoundConfidence(fin.confidence, up),
         override |-> fin.override,
         timing |-> fin.timing,
         details |-> [nan |-> q.nan,
                      upside_pct |-> IF q.nan THEN 0
                                    ELSE RoundDiv((q.p50 - price) * PROB_ONE, price + EPS),
                      spread_frac_pct |-> IF q.nan THEN 0
                                         ELSE RoundDiv((q.p90 - q.p10) * PROB_ONE, price + EPS),
                      liq_high_prob |-> l.liquidity_high_prob,
                      price_up_prob |-> l.price_up_prob,
                      price_down_prob |-> l.price_down_prob]]

NoCall == [called |-> FALSE]

\* ExecutionTrigger(...): an instance with one of the threshold sets, no call made.
NewTrigger == trig \in { [cfg |-> c, call |-> NoCall] : c \in TriggerConfigs }

\* One call of evaluate on the instance; the call record keeps the inputs, the
\* row of the decision matrix (the locals before the override) and the result.
EvaluateOn(Q, L, P) ==
    \E q \in Q, l \in L, price \in P, up \in BOOLEAN :
        trig' = [trig EXCEPT !.call =
                    [called |-> TRUE, q |-> q, l |-> l, price |-> price,
                     row |-> DecisionMatrix(trig.cfg, q, l, price),
                     out |-> evaluate(trig.cfg, q, l, price, up)]]

Evaluate == EvaluateOn(QuantilePredictions, LiquidityPredictions, Prices)

NextTrigger == Evaluate /\ UNCHANGED <<part2, part3, part4>>

(***************************************************************************)
(*        Part 2: QuantileForecaster, TransferLearner, orchestrator        *)
(***************************************************************************)

STAT_ONE == 1000000     \* 1.0 in units of mu and sigma
SEQ_LEN == 30           \* QuantileForecasterConfig.seq_len
MAX_HORIZON == 5        \* QuantileForecasterConfig.max_horizon
ALPHA_NUM == 3          \* alpha = 0.3 = ALPHA_NUM / ALPHA_DEN
ALPHA_DEN == 10
FREEZE_LAYERS == 2      \* TransferLearnerConfig.freeze_layers
NoObj == 0              \* the None of a forecaster reference

\* QuantileForecasterConfig: the default, the one pre_train builds
\* (epochs = pretrain_epochs) and a custom one (seq_len 10, max_horizon 3).
Config(name) ==
    CASE name = "default"  -> [seq_len |-> SEQ_LEN, max_horizon |-> MAX_HORIZON, epochs |-> 50]
      [] name = "pretrain" -> [seq_len |-> SEQ_LEN, max_horizon |-> MAX_HORIZON, epochs |-> 30]
      [] name = "custom"   -> [seq_len |-> 10, max_horizon |-> 3, epochs |-> 5]

\* A price series is given by its length, the mean (mu) and the standard
\* deviation plus 1e-9 (sigma) of its log-returns, and its last price: what
\* np.mean(np.diff(np.log(.))), np.std(.) + 1e-9 and series[-1] yield on it.
\* A window of one price has no log-returns: np.mean and np.std of the
\* empty array are nan (the mu and sigma fields of that window are not used).
Series ==
    { [len |-> 1,  mu |-> 0,      sigma |-> 0,     last |-> 50],
      [len |-> 12, mu |-> 10000,  sigma |-> 20000, last |-> 50],
      [len |-> 13, mu |-> 10000,  sigma |-> 20000, last |-> 50],
      [len |-> 34, mu |-> 20000,  sigma |-> 30000, last |-> 45],
      [len |-> 35, mu |-> 20000,  sigma |-> 30000, last |-> 45],
      [len |-> 60, mu |-> -10000, sigma |-> 10000, last |-> 101] }

\* A training corpus: security ids in order, the length of each series, and
\* the statistics of the concatenation of the series.
Corpora ==
    { [ids |-> <<>>, lens |-> <<>>, mu |-> 0, sigma |-> 0, last |-> 0],
      [ids |-> <<"A">>, lens |-> <<34>>, mu |-> 30000, sigma |-> 40000, last |-> 20],
      [ids |-> <<"A">>, lens |-> <<35>>, mu |-> 30000, sigma |-> 40000, last |-> 20],
      [ids |-> <<"A", "B">>, lens |-> <<20, 20>>, mu |-> 40000, sigma |-> 50000, last |-> 30],
      [ids |-> <<"BIAT", "BH", "SFBT">>, lens |-> <<60, 60, 60>>,
       mu |-> 0, sigma |-> 60000, last |-> 50] }

RECURSIVE SumSeq(_)
SumSeq(s) == IF s = <<>> THEN 0 ELSE Head(s) + SumSeq(Tail(s))

\* np.concatenate(list(corpus.values())) of a non-empty corpus.
Concatenate(corpus) ==
    [len |-> SumSeq(corpus.lens), mu |-> corpus.mu, sigma |-> corpus.sigma,
     last |-> corpus.last]

\* The series a learner is fine-tuned on.
Targets == {s \in Series : s.len >= SEQ_LEN}

Horizons == 0..(MAX_HORIZON + 1)

\* File names: np.savez appends ".npz" to a name that lacks it, np.load does not.
Paths == { [stem |-> "model", npz |-> TRUE], [stem |-> "model", npz |-> FALSE] }
SavezPath(path) == [path EXCEPT !.npz = TRUE]

EmptyWeights == [k \in {} |-> 0]
NoFile == [exists |-> FALSE, data |-> EmptyWeights]
NoDisk == [p \in Paths |-> NoFile]

\* Object ids: 1 is a forecaster used on its own, 2 the forecaster the
\* orchestrator constructs, the others are allocated by the TransferLearner.
FixedIds == {1, 2}
ModelIds == 3..7
ObjIds == FixedIds \cup ModelIds

Free == [cfg |-> "free", fitted |-> FALSE, weights |-> EmptyWeights]

\* QuantileForecaster.__init__
NewForecaster(cfg) == [cfg |-> cfg, fitted |-> FALSE, weights |-> EmptyWeights]

\* d[k] = v for each key of upd, on the dict d
Assign(d, upd) ==
    [k \in (DOMAIN d) \cup (DOMAIN upd) |-> IF k \in DOMAIN upd THEN upd[k] ELSE d[k]]

\* d.get(k, default)
Get(d, k, default) == IF k \in DOMAIN d THEN d[k] ELSE default

NoMetrics == [epochs |-> -1]

\* QuantileForecaster.fit: the outcome, the forecaster after the call and the
\* metrics returned (the random pinball losses are left out).
fitOffByOne(f, s) ==
    IF s.len <= Config(f.cfg).seq_len + Config(f.cfg).max_horizon
    THEN [outcome |-> "ValueError", obj |-> f, metrics |-> NoMetrics]
    ELSE [outcome |-> "ok",
          obj |-> [f EXCEPT
                     !.weights = Assign(f.weights,
                         [mu |-> s.mu, sigma |-> s.sigma, last_price |-> s.last]),
                     !.fitted = TRUE],
          metrics |-> [epochs |-> Config(f.cfg).epochs]]

fit(f, s) ==
    IF s.len < Config(f.cfg).seq_len + Config(f.cfg).max_horizon
    THEN [outcome |-> "ValueError", obj |-> f, metrics |-> NoMetrics]
    ELSE [outcome |-> "ok",
          obj |-> [f EXCEPT
                     !.weights = Assign(f.weights,
                         [mu |-> s.mu, sigma |-> s.sigma, last_price |-> s.last]),
                     !.fitted = TRUE],
          metrics |-> [epochs |-> Config(f.cfg).epochs]]

\* math.sqrt(d) in units of 1e-3, d in 1..5
Sqrt1000(d) == <<1000, 1414, 1732, 2000, 2236>>[d]

\* z_90 = 1.2816 in units of 1e-4
Z_90 == 12816

\* math.exp(e), e in units of 1e-6, to second order: 1 + e + e^2 / 2.
\* Increasing for e > -1.0, as exp is.
ExpMicro(e) == STAT_ONE + e + ((e \div 1000) * (e \div 1000)) \div 2

\* round(last * math.exp(e), 4), in units of 1e-4
Quantile(lastp, e) == RoundDiv(lastp * ExpMicro(e), 100)

\* One QuantilePrediction.  drift = mu * d and vol = sigma * sqrt(d) are the
\* locals of predict; the quantiles are p50 = last * exp(drift),
\* p10 = last * exp(drift - 1.2816 * vol), p90 = last * exp(drift + 1.2816 * vol),
\* each rounded to 4 decimals.  nan: mu and sigma are nan, and so is every
\* quantile (the p10, p50, p90 fields then hold no number).
QuantilePrediction(d, mu, sigma, lastp, defined) ==
    LET drift == mu * d
        vol   == (sigma * Sqrt1000(d)) \div 1000
        zvol  == ((vol \div 10) * Z_90) \div 1000
    IN  [horizon_day |-> d, last |-> lastp, drift |-> drift, vol |-> vol,
         nan |-> ~defined,
         p10 |-> IF defined THEN Quantile(lastp, drift - zvol) ELSE 0,
         p50 |-> IF defined THEN Quantile(lastp, drift) ELSE 0,
         p90 |-> IF defined THEN Quantile(lastp, drift + zvol) ELSE 0]

\* np.mean / np.std of the log-returns of a window are numbers when the
\* window has at least two prices.
HasReturns(recent) == recent.len >= 2

\* QuantileForecaster.predict: the outcome and the list returned.
predictDropsLastDay(f, recent, horizon) ==
    IF horizon < 1 \/ horizon > Config(f.cfg).max_horizon
    THEN [outcome |-> "ValueError", preds |-> <<>>]
    ELSE IF f.fitted /\ ~({"mu", "sigma"} \subseteq DOMAIN f.weights)
    THEN [outcome |-> "KeyError", preds |-> <<>>]
    ELSE LET mu    == IF f.fitted THEN f.weights["mu"] ELSE recent.mu
             sigma == IF f.fitted THEN f.weights["sigma"] ELSE recent.sigma
         IN  [outcome |-> "ok",
              preds |-> [d \in 1..(horizon - 1) |-> QuantilePrediction(d, mu, sigma, recent.last,
                                                          f.fitted \/ HasReturns(recent))]]

predict(f, recent, horizon) ==
    IF horizon < 1 \/ horizon > Config(f.cfg).max_horizon
    THEN [outcome |-> "ValueError", preds |-> <<>>]
    ELSE IF f.fitted /\ ~({"mu", "sigma"} \subseteq DOMAIN f.weights)
    THEN [outcome |-> "KeyError", preds |-> <<>>]
    ELSE LET mu    == IF f.fitted THEN f.weights["mu"] ELSE recent.mu
             sigma == IF f.fitted THEN f.weights["sigma"] ELSE recent.sigma
         IN  [outcome |-> "ok",
              preds |-> [d \in 1..horizon |-> QuantilePrediction(d, mu, sigma, recent.last,
                                                          f.fitted \/ HasReturns(recent))]]

\* QuantileForecaster.save: the disk after np.savez(path, **weights).
save(f, d, path) == [d EXCEPT ![SavezPath(path)] = [exists |-> TRUE, data |-> f.weights]]

\* QuantileForecaster.load: np.load raises when the file is missing.
load(f, d, path) ==
    IF ~d[path].exists
    THEN [outcome |-> "FileNotFoundError", obj |-> f]
    ELSE [outcome |-> "ok", obj |-> [f EXCEPT !.weights = d[path].data, !.fitted = TRUE]]


(***************************************************************************)
(* C1. Before the uncertainty override, evaluate holds the signal, the     *)
(* confidence and the timing of the first matching row of the decision     *)
(* table: price_up and liq_ok -> enter; price_up and not liq_ok -> defer;  *)
(* price_down and liq_ok -> exit; price_down and not liq_ok -> defer;      *)
(* otherwise hold; with the confidence and the timing the table gives each *)
(* row.  spread_frac is the quantity evaluate computes.                    *)
(***************************************************************************)
C1_Rows(t, q, l, price) ==
    LET u  == l.price_up_prob
        d  == l.price_down_prob
        lq == l.liquidity_high_prob
        PU == u >= t.price_up_thr
        PD == d >= t.price_down_thr
        LO == lq >= t.liq_thr
    IN  << [match |-> PU /\ LO, signal |-> "enter", confidence |-> 10 * Min(u, lq),
            timing |-> IF lq > 7000 THEN "intraday" ELSE "next_open"],
           [match |-> PU /\ ~LO, signal |-> "defer", confidence |-> 5 * u,
            timing |-> "wait_1_day"],
           [match |-> PD /\ LO, signal |-> "exit", confidence |-> 10 * Min(d, lq),
            timing |-> IF ~q.nan /\ (q.p90 - q.p10) * PROB_ONE < t.spread_max * (price + EPS)
                       THEN "intraday" ELSE "next_close"],
           [match |-> PD /\ ~LO, signal |-> "defer", confidence |-> 4 * d,
            timing |-> "wait_1_day"],
           [match |-> TRUE, signal |-> "hold", confidence |-> 10 * (PROB_ONE - Max(u, d)),
            timing |-> "next_open"] >>

C1_FirstMatch(rows) == CHOOSE i \in 1..Len(rows) : rows[i].match /\ \A j \in 1..(i - 1) : ~rows[j].match

C1_DecisionTable ==
    trig.call.called =>
        LET rows == C1_Rows(trig.cfg, trig.call.q, trig.call.l, trig.call.price)
            r    == rows[C1_FirstMatch(rows)]
        IN  /\ trig.call.row.signal = r.signal
            /\ trig.call.row.confidence = r.confidence
            /\ trig.call.row.timing = r.timing

\* An exit row met with the direction threshold exactly reached.
C1_Witness ==
    /\ trig.call.called
    /\ trig.call.row.signal = "exit"
    /\ trig.call.l.price_down_prob = trig.cfg.price_down_thr
    /\ trig.call.row.timing = "next_close"

(***************************************************************************)
(* C2. As claimed, with spread_frac = (p90 - p10) / price: if the decision *)
(* table yields enter or exit and spread_frac > spread_max, the signal is  *)
(* hold, the timing wait_1_day and the reason carries the override marker; *)
(* in every other case signal and timing are those of the decision table.  *)
(***************************************************************************)
C2_OverrideAsClaimed ==
    (trig.call.called /\ trig.call.price > 0) =>
        LET c   == trig.call
            wide == ~c.q.nan /\ (c.q.p90 - c.q.p10) * PROB_ONE > trig.cfg.spread_max * c.price
        IN  IF c.row.signal \in {"enter", "exit"} /\ wide
            THEN c.out.signal = "hold" /\ c.out.timing = "wait_1_day" /\ c.out.override
            ELSE c.out.signal = c.row.signal /\ c.out.timing = c.row.timing

(***************************************************************************)
(* C2, amended. The same with the spread fraction evaluate computes,       *)
(* spread_frac = (p90 - p10) / (price + 1e-9).                             *)
(***************************************************************************)
C2_OverrideAmended ==
    trig.call.called =>
        LET c   == trig.call
            wide == ~c.q.nan
                    /\ (c.q.p90 - c.q.p10) * PROB_ONE > trig.cfg.spread_max * (c.price + EPS)
        IN  IF c.row.signal \in {"enter", "exit"} /\ wide
            THEN c.out.signal = "hold" /\ c.out.timing = "wait_1_day" /\ c.out.override
            ELSE c.out.signal = c.row.signal /\ c.out.timing = c.row.timing

\* An enter overridden to hold.
C2_Witness ==
    /\ trig.call.called
    /\ trig.call.row.signal = "enter"
    /\ trig.call.out.signal = "hold"
    /\ trig.call.out.override

(***************************************************************************)
(*                 Part 2, continued: TransferLearner                      *)
(***************************************************************************)

\* TransferLearner.__init__
NewLearner ==
    [base_model |-> NoObj, pretrained |-> FALSE, finetuned |-> FALSE,
     pretrain_sources |-> <<>>, freeze_layers |-> FREEZE_LAYERS]

\* The id of a newly constructed object: the least one that nothing refers to.
FreshId(refs) == CHOOSE i \in ModelIds : i \notin refs /\ \A j \in ModelIds : j < i => j \in refs

\* Objects nothing refers to are reclaimed.
Collect(H, refs) == [i \in ObjIds |-> IF i \in FixedIds \cup refs THEN H[i] ELSE Free]

\* pre_train, first statement: self._base_model = QuantileForecaster(config=cfg),
\* a new instance at every call.
PreTrainTargetReuse(L, refs) == IF L.base_model # NoObj THEN L.base_model ELSE FreshId(refs)

PreTrainTarget(L, refs) == FreshId(refs)

\* alpha * old + (1 - alpha) * new
Blend(old, new) == (ALPHA_NUM * old + (ALPHA_DEN - ALPHA_NUM) * new) \div ALPHA_DEN

\* TransferLearner.pre_train.  refs: the objects something refers to.
pre_train(L, H, corpus, refs) ==
    LET t  == PreTrainTarget(L, refs)
        L1 == [L EXCEPT !.base_model = t]
        H1 == [H EXCEPT ![t] = NewForecaster("pretrain")]
    IN  IF corpus.ids = <<>>
        THEN \* np.concatenate of an empty list raises ValueError
             [outcome |-> "ValueError", learner |-> L1, heap |-> H1,
              metrics |-> [epochs |-> -1, pretrain_sources |-> 0]]
        ELSE LET r == fit(H1[t], Concatenate(corpus))
             IN  IF r.outcome # "ok"
                 THEN [outcome |-> r.outcome, learner |-> L1, heap |-> H1,
                       metrics |-> [epochs |-> -1, pretrain_sources |-> 0]]
                 ELSE [outcome |-> "ok",
                       learner |-> [L1 EXCEPT !.pretrained = TRUE,
                                              !.pretrain_sources = corpus.ids],
                       heap |-> [H1 EXCEPT ![t] = r.obj],
                       metrics |-> [epochs |-> r.metrics.epochs,
                                    pretrain_sources |-> Len(corpus.ids)]]

\* TransferLearner.fine_tune, its guard: not self._pretrained or self._base_model is None
FineTuneGuardModelOnly(L) == L.base_model = NoObj

FineTuneGuard(L) == ~L.pretrained \/ L.base_model = NoObj

\* TransferLearner.fine_tune
fine_tune(L, H, s) ==
    IF FineTuneGuard(L)
    THEN [outcome |-> "RuntimeError", learner |-> L, heap |-> H,
          metrics |-> [epochs |-> -1, frozen_layers |-> L.freeze_layers]]
    ELSE LET b         == L.base_model
             old_mu    == Get(H[b].weights, "mu", 0)
             old_sigma == Get(H[b].weights, "sigma", STAT_ONE)
             r         == fit(H[b], s)
         IN  IF r.outcome # "ok"
             THEN [outcome |-> r.outcome, learner |-> L, heap |-> H,
                   metrics |-> [epochs |-> -1, frozen_layers |-> L.freeze_layers]]
             ELSE LET w1 == r.obj.weights
                      w2 == Assign(w1, [mu |-> Blend(old_mu, w1["mu"])])
                      w3 == Assign(w2, [sigma |-> Blend(old_sigma, w2["sigma"])])
                  IN  [outcome |-> "ok",
                       learner |-> [L EXCEPT !.finetuned = TRUE],
                       heap |-> [H EXCEPT ![b] = [r.obj EXCEPT !.weights = w3]],
                       metrics |-> [epochs |-> r.metrics.epochs,
                                    frozen_layers |-> L.freeze_layers]]

\* TransferLearner.model
model(L) ==
    IF L.base_model = NoObj
    THEN [outcome |-> "RuntimeError", obj |-> NoObj]
    ELSE [outcome |-> "ok", obj |-> L.base_model]

\* TransferLearner.status
status(L) ==
    [pretrained |-> L.pretrained, finetuned |-> L.finetuned,
     pretrain_sources |-> L.pretrain_sources, frozen_layers |-> L.freeze_layers]

\* TransferLearner.save
tl_save(L, H, d, path) == IF L.base_model # NoObj THEN save(H[L.base_model], d, path) ELSE d

\* TransferLearner.load
tl_load(L, H, d, path, refs) ==
    LET t  == IF L.base_model = NoObj THEN FreshId(refs) ELSE L.base_model
        H1 == IF L.base_model = NoObj THEN [H EXCEPT ![t] = NewForecaster("default")] ELSE H
        L1 == [L EXCEPT !.base_model = t]
        r  == load(H1[t], d, path)
    IN  IF r.outcome # "ok"
        THEN [outcome |-> r.outcome, learner |-> L1, heap |-> H1]
        ELSE [outcome |-> "ok", learner |-> [L1 EXCEPT !.pretrained = TRUE],
              heap |-> [H1 EXCEPT ![t] = r.obj]]

(***************************************************************************)
(* The orchestrator (ForecastingService).  Its source is not part of the   *)
(* tree: routes.py and tests/test_service.py call it.  It is modelled from *)
(* the specification: it owns the active forecaster and a TransferLearner; *)
(* transfer_learn pre-trains on the corpus, fine-tunes on the target and,  *)
(* when both succeed, makes the learner's forecaster the active one;       *)
(* predict forecasts with the active forecaster.                           *)
(***************************************************************************)
transfer_learn(L, H, act, target, corpus, refs) ==
    LET p == pre_train(L, H, corpus, refs)
    IN  IF p.outcome # "ok"
        THEN [outcome |-> p.outcome, stage |-> "pre_train", learner |-> p.learner,
              heap |-> p.heap, active |-> act]
        ELSE LET f == fine_tune(p.learner, p.heap, target)
             IN  IF f.outcome # "ok"
                 THEN [outcome |-> f.outcome, stage |-> "fine_tune", learner |-> f.learner,
                       heap |-> f.heap, active |-> act]
                 ELSE [outcome |-> "ok", stage |-> "done", learner |-> f.learner,
                       heap |-> f.heap, active |-> model(f.learner).obj]

\* TransferLearnOutput of a successful call
TransferLearnOutput(L) ==
    [pretrained |-> status(L).pretrained, finetuned |-> status(L).finetuned,
     pretrain_sources |-> Len(status(L).pretrain_sources),
     frozen_layers |-> status(L).frozen_layers]

service_predict(H, act, recent, horizon) ==
    LET r == predict(H[act], recent, horizon)
    IN  [outcome |-> r.outcome, preds |-> r.preds,
         out |-> [quantiles |-> [i \in 1..Len(r.preds) |-> r.preds[i]],
                  horizon_days |-> horizon]]

(***************************************************************************)
(*                    Part 4: SyntheticAugmenter                           *)
(***************************************************************************)
\* AugmenterConfig: the default (seq_len 60, n_synthetic 5) and a custom one.
AugConfig(name) ==
    CASE name = "default" -> [method |-> "vae", n_synthetic |-> 5, seq_len |-> 60,
                              noise_scale |-> 1, epochs |-> 30]
      [] name = "custom"  -> [method |-> "gan", n_synthetic |-> 2, seq_len |-> 3,
                              noise_scale |-> 1, epochs |-> 30]

\* SyntheticAugmenter.__init__: _mu = 0.0, _sigma = 1.0, _last_price = 100.0.
\* nan: _mu and _sigma hold nan (the mu and sigma fields are then not used).
NewAugmenter(cfg) ==
    [cfg |-> cfg, fitted |-> FALSE, nan |-> FALSE,
     mu |-> 0, sigma |-> STAT_ONE, last_price |-> 100]

\* The real price histories given to fit: none, one price, and histories
\* with daily log-returns of a few tenths of a percent.
AugSeries ==
    { [len |-> 0,  mu |-> 0,     sigma |-> 0,    last |-> 0],
      [len |-> 1,  mu |-> 0,     sigma |-> 0,    last |-> 100],
      [len |-> 60, mu |-> 1000,  sigma |-> 2000, last |-> 100],
      [len |-> 90, mu |-> -2000, sigma |-> 1000, last |-> 50] }

aug_fitKeepsFlag(a, s) ==
    LET stats == [a EXCEPT !.nan = ~HasReturns(s),
                           !.mu = IF HasReturns(s) THEN s.mu ELSE 0,
                           !.sigma = IF HasReturns(s) THEN s.sigma ELSE 0]
    IN  IF s.len = 0
        THEN [outcome |-> "IndexError", obj |-> stats, metrics |-> NoMetrics]
        ELSE [outcome |-> "ok",
              obj |-> [stats EXCEPT !.last_price = s.last],
              metrics |-> [method |-> AugConfig(a.cfg).method, nan |-> ~HasReturns(s),
                           mu |-> stats.mu, sigma |-> stats.sigma,
                           epochs |-> AugConfig(a.cfg).epochs]]

\* SyntheticAugmenter.fit.  _mu and _sigma are assigned before
\* price_series[-1] is read: on an empty series they are nan (np.mean of the
\* empty array) when the IndexError is raised, and _is_fitted stays False.
aug_fit(a, s) ==
    LET stats == [a EXCEPT !.nan = ~HasReturns(s),
                           !.mu = IF HasReturns(s) THEN s.mu ELSE 0,
                           !.sigma = IF HasReturns(s) THEN s.sigma ELSE 0]
    IN  IF s.len = 0
        THEN [outcome |-> "IndexError", obj |-> stats, metrics |-> NoMetrics]
        ELSE [outcome |-> "ok",
              obj |-> [stats EXCEPT !.last_price = s.last, !.fitted = TRUE],
              metrics |-> [method |-> AugConfig(a.cfg).method, nan |-> ~HasReturns(s),
                           mu |-> stats.mu, sigma |-> stats.sigma,
                           epochs |-> AugConfig(a.cfg).epochs]]

\* The draws of np.random.normal: every element of one noise array is
\* mu + z * sigma * noise_scale, with one z (-1 or 1) per array.
\* The count argument of generate: None, or an integer.
NoCount == [given |-> FALSE, n |-> 0]
Counts == {NoCount} \cup { [given |-> TRUE, n |-> k] : k \in {-1, 0, 1, 2, 3} }

\* n = n or self.config.n_synthetic
CountOrDefault(a, n) == IF ~n.given \/ n.n = 0 THEN AugConfig(a.cfg).n_synthetic ELSE n.n

\* One element of a generated array: nan, or a number in units of 1e-4.
NanValue == [nan |-> TRUE, v |-> 0]
Value(v) == [nan |-> FALSE, v |-> v]

\* np.round(self._last_price * np.exp(np.cumsum(noise)), 4) for the draw z.
SyntheticSeries(a, z) ==
    LET step == a.mu + z * a.sigma * AugConfig(a.cfg).noise_scale
    IN  [k \in 1..AugConfig(a.cfg).seq_len |->
            IF a.nan THEN NanValue
            ELSE Value(RoundDiv(a.last_price * ExpMicro(k * step), 100))]

\* for _ in range(n): the list of n arrays (none when n is negative).
SyntheticList(a, n, zs) == [i \in 1..n |-> SyntheticSeries(a, zs[i])]

\* SyntheticAugmenter.generate; zs[i] is the draw of the i-th array.
generate(a, n, zs) ==
    IF ~a.fitted
    THEN [outcome |-> "RuntimeError", obj |-> a, series |-> <<>>]
    ELSE [outcome |-> "ok", obj |-> a, series |-> SyntheticList(a, CountOrDefault(a, n), zs)]

\* close * (1 + noise) and close * (1 - noise), noise = |N(0, sigma)| = zi * sigma
\* in units of 1e-3, rounded to 4 decimals.
Scaled(x, factor) ==
    IF x.nan THEN NanValue ELSE Value(RoundDiv(x.v * factor, 1000))

\* One OHLCV dict of generate_ohlcv: open is the close rolled by one step
\* with open[0] = close[0]; volume is one non-negative whole number.
Ohlcv(a, close, zi, vol) ==
    LET noise == (zi * a.sigma) \div 1000
    IN  [open   |-> [k \in DOMAIN close |-> IF k = 1 THEN close[1] ELSE close[k - 1]],
         high   |-> [k \in DOMAIN close |-> Scaled(close[k], 1000 + noise)],
         low    |-> [k \in DOMAIN close |-> Scaled(close[k], 1000 - noise)],
         close  |-> close,
         volume |-> [k \in DOMAIN close |-> vol]]

IntradayDraws == {0, 1}
Volumes == {5000}

\* SyntheticAugmenter.generate_ohlcv
generate_ohlcv(a, n, zs, zi, vol) ==
    LET raw == generate(a, n, zs)
    IN  IF raw.outcome /= "ok"
        THEN [outcome |-> raw.outcome, obj |-> raw.obj, results |-> <<>>]
        ELSE [outcome |-> "ok", obj |-> raw.obj,
              results |-> [i \in DOMAIN raw.series |-> Ohlcv(a, raw.series[i], zi, vol)]]

\* SyntheticAugmenter.status
aug_status(a) ==
    [fitted |-> a.fitted, method |-> AugConfig(a.cfg).method, nan |-> a.nan,
     mu |-> a.mu, sigma |-> a.sigma]

(***************************************************************************)
(*                       Part 4: LiquidityModel                            *)
(*                                                                         *)
(* OHLCV and order-book values are whole numbers.  The five probabilities  *)
(* of a LiquidityPrediction are in units of 1e-4, the sigmoid in units of  *)
(* 1e-6.  GUARD stands for the 1e-9 the code adds to a denominator: a      *)
(* denominator d + 1e-9 with d >= 1 is taken as d (the quotient moves by   *)
(* less than one part in 1e9), and a quotient x / (0 + 1e-9) is x * 1e9,   *)
(* kept apart from the other terms (the g field of a score).               *)
(***************************************************************************)
\* LiquidityModelConfig: the weights of the liquidity score, in tenths.
SPREAD_WEIGHT == 4
DEPTH_WEIGHT == 3
IMBALANCE_WEIGHT == 3
\* flat_band / 2 = 0.05, in units of 1e-6
HALF_FLAT_BAND == 50000
\* np.clip(x, -500, 500)
SIGMOID_CLIP == 500

EmptyDict == [k \in {} |-> 0]

\* LiquidityModel.__init__
NewLiquidityModel == [fitted |-> FALSE, stats |-> EmptyDict]

\* An order-book history is given by its length and by what np.mean and
\* np.std yield on its spreads and depths (np.mean and np.std of the empty
\* array are nan).
ObSeries ==
    { [len |-> 0,  mean_spread |-> 0, std_spread |-> 0, mean_depth |-> 0,    std_depth |-> 0],
      [len |-> 60, mean_spread |-> 1, std_spread |-> 0, mean_depth |-> 2000, std_depth |-> 0],
      [len |-> 60, mean_spread |-> 5, std_spread |-> 5, mean_depth |-> 10,   std_depth |-> 10] }

\* A statistic: nan, or the number v (a std_* statistic is v + 1e-9).
Stat(defined, v) == IF defined THEN Value(v) ELSE NanValue

\* LiquidityModel.fit: the six assignments to _stats, then _is_fitted = True.
liq_fit(m, prices, obs) ==
    [outcome |-> "ok",
     obj |-> [fitted |-> TRUE,
              stats |-> Assign(m.stats,
                  [mean_spread |-> Stat(obs.len > 0, obs.mean_spread),
                   std_spread  |-> Stat(obs.len > 0, obs.std_spread),
                   mean_depth  |-> Stat(obs.len > 0, obs.mean_depth),
                   std_depth   |-> Stat(obs.len > 0, obs.std_depth),
                   mean_return |-> Stat(HasReturns(prices), prices.mu),
                   std_return  |-> Stat(HasReturns(prices), prices.sigma)])],
     metrics |-> [loss |-> 35, accuracy_direction |-> 58, auc_liquidity |-> 72]]

\* 1 / (1 + exp(-x)) for a whole x, in units of 1e-6.
SigmoidTable ==
    << 731059, 880797, 952574, 982014, 993307, 997527, 999089,
       999665, 999877, 999955, 999983, 999994, 999998, 999999 >>

SigmoidWhole(x) ==
    IF x = 0 THEN STAT_ONE \div 2
    ELSE IF x > Len(SigmoidTable) THEN STAT_ONE
    ELSE IF x > 0 THEN SigmoidTable[x]
    ELSE IF -x > Len(SigmoidTable) THEN 0
    ELSE STAT_ONE - SigmoidTable[-x]

\* LiquidityModel._sigmoid on a score: g counts multiples of 1e9 / 10, r is
\* the rest in tenths (a whole number of units for the inputs of the model).
Sigmoid(score) ==
    IF score.g > 0 THEN SigmoidWhole(SIGMOID_CLIP)
    ELSE IF score.g < 0 THEN SigmoidWhole(-SIGMOID_CLIP)
    ELSE SigmoidWhole(Max(-SIGMOID_CLIP, Min(SIGMOID_CLIP, RoundDiv(score.r, 10))))

\* ret * 10, ret = (close - open) / (open + 1e-9): the numerator reads
\* ohlcv.get("open", 0), the denominator ohlcv.get("open", 1).
Ret10(ohlcv) ==
    LET num == Get(ohlcv, "close", 0) - Get(ohlcv, "open", 0)
        den == Get(ohlcv, "open", 1)
    IN  IF den = 0 THEN [g |-> 100 * num, r |-> 0]
        ELSE [g |-> 0, r |-> (100 * num) \div den]

\* round(p / total, 4) with total = 1 + 1e-9, p in units of 1e-6: the
\* quotient is just below p, so that an exact half rounds down.
RoundBelow(p) == IF p % 100 > 50 THEN (p \div 100) + 1 ELSE p \div 100

\* (x - mean) / std of predict: the statistic of a fitted model carries the
\* 1e-9 of fit, the defaults of an unfitted one (mean 0, std 1) do not.
Norm(stats, x, mean_key, std_key) ==
    LET mean == Get(stats, mean_key, Value(0))
        std  == Get(stats, std_key, Value(1))
    IN  IF mean.nan \/ std.nan THEN [nan |-> TRUE, g |-> 0, r |-> 0]
        ELSE IF std.v = 0 THEN [nan |-> FALSE, g |-> 10 * (x - mean.v), r |-> 0]
        ELSE [nan |-> FALSE, g |-> 0, r |-> (10 * (x - mean.v)) \div std.v]

\* dict defaults that a call may write into the order book it was given.
BookDefaults == [spread |-> 0, depth |-> 0, imbalance |-> 0]

\* The five probabilities of predict on the dicts ohlcv and book.
LiquidityProbs(m, ohlcv, book) ==
    LET spread      == Get(book, "spread", 0)
        depth       == Get(book, "depth", 0)
        imbalance   == Get(book, "imbalance", 0)
        up          == Sigmoid(Ret10(ohlcv))
        down        == STAT_ONE - up
        price_up    == Max(up - HALF_FLAT_BAND, 0)
        price_down  == Max(down - HALF_FLAT_BAND, 0)
        price_flat  == Max(STAT_ONE - price_up - price_down, 0)
        norm_spread == Norm(m.stats, spread, "mean_spread", "std_spread")
        norm_depth  == Norm(m.stats, depth, "mean_depth", "std_depth")
        score       == [g |-> DEPTH_WEIGHT * norm_depth.g - SPREAD_WEIGHT * norm_spread.g,
                        r |-> RoundDiv(DEPTH_WEIGHT * norm_depth.r
                                       - SPREAD_WEIGHT * norm_spread.r, 10)
                              + IMBALANCE_WEIGHT * imbalance]
        liq_high    == Sigmoid(score)
        defined     == ~norm_spread.nan /\ ~norm_depth.nan
    IN  [price_up_prob   |-> Value(RoundBelow(price_up)),
         price_flat_prob |-> Value(RoundBelow(price_flat)),
         price_down_prob |-> Value(RoundBelow(price_down)),
         liquidity_high_prob |-> Stat(defined, RoundDiv(liq_high, 100)),
         liquidity_low_prob  |-> Stat(defined, RoundDiv(STAT_ONE - liq_high, 100))]

\* None for the order_book argument of predict
NoBook == [given |-> FALSE, dict |-> EmptyDict]
Book(d) == [given |-> TRUE, dict |-> d]

liq_predictFillsBook(m, ohlcv, order_book) ==
    [outcome |-> "ok", obj |-> m, ohlcv |-> ohlcv,
     order_book |-> IF order_book.given
                    THEN Book(Assign(BookDefaults, order_book.dict)) ELSE order_book,
     out |-> LiquidityProbs(m, ohlcv, order_book.dict)]

\* LiquidityModel.predict: the model and the two arguments after the call,
\* and the LiquidityPrediction.  order_book = order_book or {} binds the
\* local name; no dict is written.
liq_predict(m, ohlcv, order_book) ==
    [outcome |-> "ok", obj |-> m, ohlcv |-> ohlcv, order_book |-> order_book,
     out |-> LiquidityProbs(m, ohlcv, order_book.dict)]

(***************************************************************************)
(*                      Part 4: ForecastExplainer                          *)
(*                                                                         *)
(* A feature map (a dict, which keeps the order of insertion) is a         *)
(* sequence of [k, v] records with distinct keys and whole values.  SHAP   *)
(* values are in units of 1e-2.  p10, p90 and the bounds of an interval    *)
(* are in units of 1e-4, a confidence level in units of 1e-7.              *)
(***************************************************************************)
\* ForecastExplainer.__init__: self.baseline = baseline or {}
NewExplainer(baseline) == [baseline |-> baseline]

\* _heuristic_shap: the weights, in units of 1e-2, and weights.get(key, 0.01)
ShapWeights ==
    [volume |-> 30, close |-> 20, spread |-> 15, depth |-> 10, rsi |-> 10, open |-> 5,
     high |-> 3, low |-> 3, imbalance |-> 2, news_sentiment |-> 2]
DEFAULT_SHAP_WEIGHT == 1

\* _FEATURE_LABELS.get(k, k)
FeatureLabels ==
    [close |-> "Closing price", open |-> "Opening price", high |-> "Daily high",
     low |-> "Daily low", volume |-> "Trading volume", spread |-> "Bid-ask spread",
     depth |-> "Order-book depth", imbalance |-> "Order imbalance", rsi |-> "RSI (14)",
     macd |-> "MACD", news_sentiment |-> "News sentiment score"]

\* features.get(key, default) on a feature map
Lookup(features, key, default) ==
    IF \E i \in DOMAIN features : features[i].k = key
    THEN features[CHOOSE i \in DOMAIN features : features[i].k = key].v
    ELSE default

\* ForecastExplainer._heuristic_shap
heuristic_shap(e, features) ==
    [i \in DOMAIN features |->
        [k |-> features[i].k,
         v |-> Get(ShapWeights, features[i].k, DEFAULT_SHAP_WEIGHT)
               * (features[i].v - Get(e.baseline, features[i].k, 0))]]

\* The callables given as predict_fn: the sum of the feature values, and the
\* closing price alone.  The result is in units of 1e-2.
PredictFns == {"none", "sum", "close"}

RECURSIVE SumValues(_)
SumValues(features) ==
    IF features = <<>> THEN 0 ELSE Head(features).v + SumValues(Tail(features))

ApplyPredictFn(fn, features) ==
    IF fn = "sum" THEN 100 * SumValues(features) ELSE 100 * Lookup(features, "close", 0)

\* ablated = dict(features); ablated[key] = self.baseline.get(key, 0.0)
Ablated(e, features, i) ==
    [features EXCEPT ![i] = [k |-> features[i].k, v |-> Get(e.baseline, features[i].k, 0)]]

compute_shapInPlace(e, features, fn) ==
    [outcome |-> "ok", obj |-> e,
     features |-> IF fn = "none" \/ features = <<>> THEN features
                  ELSE Ablated(e, features, Len(features)),
     out |-> IF fn = "none" THEN heuristic_shap(e, features)
             ELSE [i \in DOMAIN features |->
                      [k |-> features[i].k,
                       v |-> ApplyPredictFn(fn, features)
                             - ApplyPredictFn(fn, Ablated(e, features, i))]]]

compute_shapZeroAblation(e, features, fn) ==
    [outcome |-> "ok", obj |-> e, features |-> features,
     out |-> IF fn = "none" THEN heuristic_shap(e, features)
             ELSE [i \in DOMAIN features |->
                      [k |-> features[i].k,
                       v |-> ApplyPredictFn(fn, features)
                             - ApplyPredictFn(fn, Ablated(NewExplainer(EmptyDict), features, i))]]]

\* ForecastExplainer.compute_shap: the explainer and the feature map after
\* the call, and the attribution map.
compute_shap(e, features, fn) ==
    [outcome |-> "ok", obj |-> e, features |-> features,
     out |-> IF fn = "none" THEN heuristic_shap(e, features)
             ELSE [i \in DOMAIN features |->
                      [k |-> features[i].k,
                       v |-> ApplyPredictFn(fn, features)
                             - ApplyPredictFn(fn, Ablated(e, features, i))]]]

\* z-scores in units of 1e-4
Z_80 == 12816
CONF_80 == 8000000
CONF_TOLERANCE == 10

\* z_map.get(round(confidence, 2), 1.2816); level is round(confidence, 2) in
\* units of 1e-2
ZTarget(level) ==
    CASE level = 90 -> 16449
      [] level = 95 -> 19600
      [] level = 99 -> 25758
      [] level = 50 -> 6745
      [] OTHER -> Z_80

\* |x|
Abs(x) == IF x < 0 THEN -x ELSE x

\* round(base + x / y, 0) for y > 0, ties to even
RoundFrom(base, x, y) ==
    LET f == x \div y
        r == x - f * y
    IN  IF 2 * r < y THEN base + f
        ELSE IF 2 * r > y THEN base + f + 1
        ELSE IF (base + f) % 2 = 0 THEN base + f ELSE base + f + 1

\* round(p + width * dz / (2 * z_80), 4): the product is taken in two parts,
\* width = a * (2 * z_80) + b.
Rescaled(p, width, dz) ==
    RoundFrom(p + (width \div (2 * Z_80)) * dz, (width % (2 * Z_80)) * dz, 2 * Z_80)

confidence_intervalUnscaled(e, p10, p90, confidence) ==
    [outcome |-> "ok", obj |-> e, low |-> p10, high |-> p90]

\* ForecastExplainer.confidence_interval.  With mid = (p10 + p90) / 2 and
\* scaled = (p90 - p10) / 2 * (z_target / z_80),
\*   mid - scaled = p10 + (p90 - p10) * (z_80 - z_target) / (2 * z_80),
\*   mid + scaled = p90 + (p90 - p10) * (z_target - z_80) / (2 * z_80).
confidence_interval(e, p10, p90, confidence) ==
    LET z_target == ZTarget(RoundDiv(confidence, 100000))
    IN  IF Abs(confidence - CONF_80) < CONF_TOLERANCE
        THEN [outcome |-> "ok", obj |-> e, low |-> p10, high |-> p90]
        ELSE [outcome |-> "ok", obj |-> e,
              low  |-> Rescaled(p10, p90 - p10, Z_80 - z_target),
              high |-> Rescaled(p90, p90 - p10, z_target - Z_80)]

\* sorted(shap_values.items(), key=lambda kv: abs(kv[1]), reverse=True): a
\* stable sort, entries of equal |value| keep their order.
RECURSIVE InsertRanked(_, _)
InsertRanked(x, ranked) ==
    IF ranked = <<>> THEN << x >>
    ELSE IF Abs(Head(ranked).v) >= Abs(x.v) THEN << Head(ranked) >> \o InsertRanked(x, Tail(ranked))
    ELSE << x >> \o ranked

RECURSIVE Ranked(_)
Ranked(shap_values) ==
    IF shap_values = <<>> THEN <<>>
    ELSE InsertRanked(shap_values[Len(shap_values)],
                      Ranked(SubSeq(shap_values, 1, Len(shap_values) - 1)))

\* ranked[:top_k], top_k negative included
Slice(s, top_k) ==
    IF top_k >= 0 THEN SubSeq(s, 1, Min(top_k, Len(s)))
    ELSE SubSeq(s, 1, Max(Len(s) + top_k, 0))

top_driversUnranked(e, shap_values, top_k) ==
    [outcome |-> "ok", obj |-> e, shap_values |-> shap_values,
     out |-> [i \in DOMAIN Slice(shap_values, top_k) |->
                [feature |-> shap_values[i].k,
                 label |-> Get(FeatureLabels, shap_values[i].k, shap_values[i].k),
                 shap_value |-> shap_values[i].v,
                 direction |-> IF shap_values[i].v > 0 THEN "positive" ELSE "negative"]]]

\* ForecastExplainer.top_drivers: the explainer and the SHAP map after the
\* call, and the list of drivers.
top_drivers(e, shap_values, top_k) ==
    LET ranked == Slice(Ranked(shap_values), top_k)
    IN  [outcome |-> "ok", obj |-> e, shap_values |-> shap_values,
         out |-> [i \in DOMAIN ranked |->
                    [feature |-> ranked[i].k,
                     label |-> Get(FeatureLabels, ranked[i].k, ranked[i].k),
                     shap_value |-> ranked[i].v,
                     direction |-> IF ranked[i].v > 0 THEN "positive" ELSE "negative"]]]

(***************************************************************************)
(*                       Initial values of the parts                       *)
(***************************************************************************)
IdleTrigger == trig = [cfg |-> CHOOSE c \in TriggerConfigs : c.spread_max = 300, call |-> NoCall]

\* last: the latest call, its inputs, its outcome and the state before it.
\* hist: what has happened to the learner since it was constructed: whether
\* pre_train / load were called, whether one of them completed successfully
\* (trained), whether the learner's forecaster is still the one the latest
\* successful pre_train fitted (pre_current), and the mu and sigma that
\* pre_train produced.
NoLast == [op |-> "none", outcome |-> "none"]
NoHist == [pre_train_called |-> FALSE, load_called |-> FALSE, trained |-> FALSE,
           pre_current |-> FALSE, pre_mu |-> 0, pre_sigma |-> 0]

\* The state after construction: the forecaster used on its own (object 1,
\* with configuration cfg), the orchestrator's forecaster (object 2), a new
\* TransferLearner, an empty directory.
InitObjects(cfg) ==
    /\ heap = [i \in ObjIds |-> IF i = 1 THEN NewForecaster(cfg)
                                ELSE IF i = 2 THEN NewForecaster("default") ELSE Free]
    /\ learner = NewLearner
    /\ active = 2
    /\ disk = NoDisk
    /\ last = NoLast
    /\ hist = NoHist
    /\ nops = 0

IdleConc ==
    /\ wr = [pc |-> "idle"]
    /\ rd = <<>>
    /\ seen = {}

\* call: the latest call of Part 4, its inputs, its result, the object before
\* it and, for the augmenter, whether a fit has succeeded so far (fit_ok).
NoModelCall == [op |-> "none", outcome |-> "none", fit_ok |-> FALSE]

\* The state after construction of a LiquidityModel, of a SyntheticAugmenter
\* with configuration cfg and of a ForecastExplainer with the given baseline.
InitModels(cfg, baseline) ==
    /\ liq = NewLiquidityModel
    /\ aug = NewAugmenter(cfg)
    /\ expl = NewExplainer(baseline)
    /\ call = NoModelCall

IdleModels == InitModels("default", EmptyDict)

InitTrigger == NewTrigger /\ InitObjects("default") /\ IdleConc /\ IdleModels

SpecTrigger == InitTrigger /\ [][NextTrigger]_vars

(***************************************************************************)
(*          QuantileForecaster used on its own (object 1)                  *)
(***************************************************************************)
FitOn(S) ==
    \E s \in S :
        LET r == fit(heap[1], s)
        IN  /\ heap' = [heap EXCEPT ![1] = r.obj]
            /\ last' = [op |-> "fit", outcome |-> r.outcome, series |-> s,
                        before |-> heap[1]]
            /\ UNCHANGED <<learner, active, disk, hist, nops, part1, part3, part4>>

PredictOn(S, H) ==
    \E recent \in S, h \in H :
        LET r == predict(heap[1], recent, h)
        IN  /\ last' = [op |-> "predict", outcome |-> r.outcome, recent |-> recent,
                        horizon |-> h, preds |-> r.preds, before |-> heap[1]]
            /\ UNCHANGED <<heap, learner, active, disk, hist, nops, part1, part3, part4>>

Fit == FitOn(Series)
Predict == PredictOn(Series, Horizons)

Save ==
    \E path \in Paths :
        /\ disk' = save(heap[1], disk, path)
        /\ last' = [op |-> "save", outcome |-> "ok", path |-> path, before |-> heap[1]]
        /\ UNCHANGED <<heap, learner, active, hist, nops, part1, part3, part4>>

Load ==
    \E path \in Paths :
        LET r == load(heap[1], disk, path)
        IN  /\ heap' = [heap EXCEPT ![1] = r.obj]
            /\ last' = [op |-> "load", outcome |-> r.outcome, path |-> path,
                        before |-> heap[1]]
            /\ UNCHANGED <<learner, active, disk, hist, nops, part1, part3, part4>>

\* new_fc = QuantileForecaster(); new_fc.load(path).  The record keeps the
\* loaded forecaster, the forecaster the file may have come from (object 1),
\* and whether the call before this one was its save(path), same path.
LoadFresh ==
    \E path \in Paths :
        LET r == load(NewForecaster("default"), disk, path)
        IN  /\ last' = [op |-> "load_fresh", outcome |-> r.outcome, path |-> path,
                        loaded |-> r.obj, saved |-> heap[1],
                        after_save |-> (last.op = "save" /\ last.path = path)]
            /\ UNCHANGED <<heap, learner, active, disk, hist, nops, part1, part3, part4>>

NextForecaster == Fit \/ Predict \/ Save \/ Load \/ LoadFresh

InitForecaster ==
    /\ IdleTrigger
    /\ \E cfg \in {"default", "custom"} : InitObjects(cfg)
    /\ IdleConc
    /\ IdleModels

SpecForecaster == InitForecaster /\ [][NextForecaster]_vars

(***************************************************************************)
(* C8. fit fails with ValueError exactly when the series is shorter than   *)
(* seq_len + max_horizon; a failed fit leaves the fitted flag and the      *)
(* stored mu, sigma and last price as they were; a successful fit stores   *)
(* mu, sigma and the last price of the series and sets fitted.             *)
(***************************************************************************)
C8_FitInsufficientHistory ==
    last.op = "fit" =>
        LET c     == Config(last.before.cfg)
            short == last.series.len < c.seq_len + c.max_horizon
        IN  /\ last.outcome \in {"ok", "ValueError"}
            /\ (last.outcome = "ValueError") <=> short
            /\ short => heap[1] = last.before
            /\ ~short =>
                 /\ heap[1].fitted
                 /\ heap[1].weights["mu"] = last.series.mu
                 /\ heap[1].weights["sigma"] = last.series.sigma
                 /\ heap[1].weights["last_price"] = last.series.last

\* A fit on a series of exactly seq_len + max_horizon points has succeeded.
C8_Witness ==
    /\ last.op = "fit"
    /\ last.series.len = Config(last.before.cfg).seq_len + Config(last.before.cfg).max_horizon
    /\ last.outcome = "ok"
    /\ ~last.before.fitted

(***************************************************************************)
(* C9. predict fails with ValueError exactly when horizon < 1 or           *)
(* horizon > max_horizon, fitted or not, and for every horizon in          *)
(* [1, max_horizon] it succeeds: a fitted forecaster uses its stored mu    *)
(* and sigma, an unfitted one those of the log-returns of recent_prices.   *)
(***************************************************************************)
C9_PredictHorizon ==
    last.op = "predict" =>
        LET f     == last.before
            valid == last.horizon >= 1 /\ last.horizon <= Config(f.cfg).max_horizon
        IN  /\ (last.outcome = "ValueError") <=> ~valid
            /\ valid =>
                 /\ last.outcome = "ok"
                 /\ Len(last.preds) >= 1
                 /\ last.preds[1].drift =
                        (IF f.fitted THEN f.weights["mu"] ELSE last.recent.mu)
                 /\ last.preds[1].vol =
                        (IF f.fitted THEN f.weights["sigma"] ELSE last.recent.sigma)

(***************************************************************************)
(*                  A TransferLearner used on its own                      *)
(***************************************************************************)
MaxFineTunes == 2

\* The objects something refers to, for a learner and an active forecaster.
Refs(L, act) == ({L.base_model} \ {NoObj}) \cup {act}

\* The learner's forecaster, Free when it has none.
BaseOf(L, H) == IF L.base_model = NoObj THEN Free ELSE H[L.base_model]

Snapshot(L, H) == [learner |-> L, obj |-> BaseOf(L, H)]

\* TransferLearner()
Construct ==
    /\ learner' = NewLearner
    /\ heap' = Collect(heap, Refs(NewLearner, active))
    /\ hist' = NoHist
    /\ last' = [op |-> "construct", outcome |-> "ok"]
    /\ UNCHANGED <<active, disk, nops, part1, part3, part4>>

PreTrain ==
    \E corpus \in Corpora :
        LET r == pre_train(learner, heap, corpus, Refs(learner, active))
            b == r.heap[r.learner.base_model]
        IN  /\ learner' = r.learner
            /\ heap' = Collect(r.heap, Refs(r.learner, active))
            /\ hist' = IF r.outcome = "ok"
                       THEN [hist EXCEPT !.pre_train_called = TRUE, !.trained = TRUE,
                                         !.pre_current = TRUE,
                                         !.pre_mu = b.weights["mu"],
                                         !.pre_sigma = b.weights["sigma"]]
                       ELSE [hist EXCEPT !.pre_train_called = TRUE,
                                         !.pre_current = FALSE]
            /\ last' = [op |-> "pre_train", outcome |-> r.outcome, corpus |-> corpus,
                        before |-> Snapshot(learner, heap)]
            /\ UNCHANGED <<active, disk, nops, part1, part3, part4>>

\* At most MaxFineTunes calls of fine_tune succeed in a run.
FineTune ==
    /\ nops < MaxFineTunes
    /\ \E s \in Targets :
        LET r == fine_tune(learner, heap, s)
        IN  /\ learner' = r.learner
            /\ heap' = r.heap
            /\ nops' = IF r.outcome = "ok" THEN nops + 1 ELSE nops
            /\ last' = [op |-> "fine_tune", outcome |-> r.outcome, series |-> s,
                        before |-> Snapshot(learner, heap)]
            /\ UNCHANGED <<active, disk, hist, part1, part3, part4>>

Model ==
    LET r == model(learner)
    IN  /\ last' = [op |-> "model", outcome |-> r.outcome, obj |-> r.obj]
        /\ UNCHANGED <<heap, learner, active, disk, hist, nops, part1, part3, part4>>

Status ==
    /\ last' = [op |-> "status", outcome |-> "ok", out |-> status(learner)]
    /\ UNCHANGED <<heap, learner, active, disk, hist, nops, part1, part3, part4>>

LearnerSave ==
    \E path \in Paths :
        /\ disk' = tl_save(learner, heap, disk, path)
        /\ last' = [op |-> "tl_save", outcome |-> "ok", path |-> path]
        /\ UNCHANGED <<heap, learner, active, hist, nops, part1, part3, part4>>

LearnerLoad ==
    \E path \in Paths :
        LET r == tl_load(learner, heap, disk, path, Refs(learner, active))
        IN  /\ learner' = r.learner
            /\ heap' = r.heap
            /\ hist' = IF r.outcome = "ok"
                       THEN [hist EXCEPT !.load_called = TRUE, !.trained = TRUE,
                                         !.pre_current = FALSE]
                       ELSE [hist EXCEPT !.load_called = TRUE]
            /\ last' = [op |-> "tl_load", outcome |-> r.outcome, path |-> path,
                        before |-> Snapshot(learner, heap)]
            /\ UNCHANGED <<active, disk, nops, part1, part3, part4>>

NextLearner ==
    Construct \/ PreTrain \/ FineTune \/ Model \/ Status \/ LearnerSave \/ LearnerLoad

InitLearner == IdleTrigger /\ InitObjects("default") /\ IdleConc /\ IdleModels

SpecLearner == InitLearner /\ [][NextLearner]_vars

(***************************************************************************)
(* C5 as stated.  fine_tune on a learner on which pre_train has not run    *)
(* fails with RuntimeError and leaves the learner as it was: pretrained    *)
(* and finetuned false, no internal forecaster, pretrain_sources empty.    *)
(***************************************************************************)
C5_FineTuneWithoutPreTrain ==
    (last.op = "fine_tune" /\ ~hist.pre_train_called) =>
        /\ last.outcome = "RuntimeError"
        /\ ~learner.pretrained
        /\ ~learner.finetuned
        /\ learner.base_model = NoObj
        /\ learner.pretrain_sources = <<>>

(***************************************************************************)
(* C5, amended.  fine_tune on a learner on which neither pre_train nor     *)
(* load has completed successfully fails with RuntimeError and leaves the  *)
(* learner and its forecaster as they were before the call: pretrained and *)
(* finetuned false and pretrain_sources empty; a learner on which neither  *)
(* pre_train nor load was ever called has no internal forecaster.          *)
(***************************************************************************)
C5_FineTuneUntrained ==
    (last.op = "fine_tune" /\ ~hist.trained) =>
        /\ last.outcome = "RuntimeError"
        /\ Snapshot(learner, heap) = last.before
        /\ ~learner.pretrained
        /\ ~learner.finetuned
        /\ learner.pretrain_sources = <<>>
        /\ (~hist.pre_train_called /\ ~hist.load_called) => learner.base_model = NoObj

\* fine_tune has failed on a learner whose only pre_train failed.
C5_Witness ==
    /\ last.op = "fine_tune"
    /\ last.outcome = "RuntimeError"
    /\ hist.pre_train_called
    /\ ~hist.trained
    /\ learner.base_model # NoObj

(***************************************************************************)
(* C6. The model accessor fails with RuntimeError whenever no pre_train    *)
(* and no load has completed successfully, and never hands out an unfitted *)
(* forecaster.                                                             *)
(***************************************************************************)
C6_ModelNotFitted ==
    last.op = "model" =>
        /\ ~hist.trained => last.outcome = "RuntimeError"
        /\ last.outcome = "ok" => heap[last.obj].fitted

(***************************************************************************)
(* C7. After every successful fine_tune the forecaster holds               *)
(* mu = 0.3 * mu_pre + 0.7 * mu_new and sigma = 0.3 * sigma_pre +          *)
(* 0.7 * sigma_new, (mu_pre, sigma_pre) being the pre-trained values and   *)
(* (mu_new, sigma_new) those of a plain fit on the target series; also for *)
(* a second fine_tune after a first one.  Stated for a learner whose       *)
(* forecaster is the one its latest pre_train fitted (hist.pre_current).   *)
(***************************************************************************)
C7_BlendWithPreTrained ==
    (last.op = "fine_tune" /\ last.outcome = "ok" /\ hist.pre_current) =>
        LET w == heap[learner.base_model].weights
        IN  /\ ALPHA_DEN * w["mu"] =
                   ALPHA_NUM * hist.pre_mu + (ALPHA_DEN - ALPHA_NUM) * last.series.mu
            /\ ALPHA_DEN * w["sigma"] =
                   ALPHA_NUM * hist.pre_sigma + (ALPHA_DEN - ALPHA_NUM) * last.series.sigma

(***************************************************************************)
(*        The orchestrator, one request at a time (SpecService)            *)
(***************************************************************************)
ActiveSnapshot == [active |-> active, obj |-> heap[active]]

TransferLearn ==
    \E corpus \in Corpora, target \in Targets :
        LET r == transfer_learn(learner, heap, active, target, corpus, Refs(learner, active))
        IN  /\ learner' = r.learner
            /\ active' = r.active
            /\ heap' = Collect(r.heap, Refs(r.learner, r.active))
            /\ last' = [op |-> "transfer_learn", outcome |-> r.outcome, stage |-> r.stage,
                        corpus |-> corpus, target |-> target, before |-> ActiveSnapshot,
                        out |-> TransferLearnOutput(r.learner)]
            /\ UNCHANGED <<disk, hist, nops, part1, part3, part4>>

Forecast ==
    \E recent \in Series, h \in Horizons :
        LET r == service_predict(heap, active, recent, h)
        IN  /\ last' = [op |-> "forecast", outcome |-> r.outcome, recent |-> recent,
                        horizon |-> h, preds |-> r.preds, out |-> r.out,
                        before |-> ActiveSnapshot]
            /\ UNCHANGED <<heap, learner, active, disk, hist, nops, part1, part3, part4>>

NextService == TransferLearn \/ Forecast

InitService == IdleTrigger /\ InitObjects("default") /\ IdleConc /\ IdleModels

SpecService == InitService /\ [][NextService]_vars

(***************************************************************************)
(* C4. The active forecaster is replaced if and only if a transfer_learn   *)
(* call succeeds.  After a successful call it is the learner's fine-tuned, *)
(* fitted forecaster, an instance other than the one before the call, and  *)
(* a later forecast uses it (its stored mu and sigma); a transfer_learn    *)
(* that fails in pre_train or fine_tune, and a forecast, leave the active  *)
(* forecaster the one it was, with the state it had.                       *)
(***************************************************************************)
C4_ActiveReplacedIffSuccess ==
    /\ (last.op = "transfer_learn" /\ last.outcome = "ok") =>
          /\ active # last.before.active
          /\ active = learner.base_model
          /\ learner.pretrained /\ learner.finetuned
          /\ heap[active].fitted
          /\ heap[active].weights["mu"] = Blend(last.corpus.mu, last.target.mu)
          /\ heap[active].weights["sigma"] = Blend(last.corpus.sigma, last.target.sigma)
    /\ (last.op = "transfer_learn" /\ last.outcome # "ok") =>
          /\ last.stage \in {"pre_train", "fine_tune"}
          /\ ActiveSnapshot = last.before
    /\ last.op = "forecast" =>
          /\ ActiveSnapshot = last.before
          /\ (heap[active].fitted /\ last.outcome = "ok") =>
                /\ last.preds[1].drift = heap[active].weights["mu"]
                /\ last.preds[1].vol = heap[active].weights["sigma"]

\* A forecast has used a forecaster that a successful transfer_learn installed.
C4_Witness ==
    /\ last.op = "forecast"
    /\ last.outcome = "ok"
    /\ active # 2
    /\ active = learner.base_model
    /\ heap[active].fitted
    /\ learner.finetuned

MaxTransfers == 2
Readers == 1..2

\* The corpora of the concurrent requests: none, a short one and a long one.
SmallCorpora == {c \in Corpora : Len(c.ids) <= 1}

IdleReader == [pc |-> "idle"]

\* The observable state of a forecaster: what predict reads of it.
ModelState(f) ==
    [fitted |-> f.fitted, mu |-> Get(f.weights, "mu", 0), sigma |-> Get(f.weights, "sigma", 0)]

ConcRefs(L, act, R) ==
    Refs(L, act) \cup {R[r].obj : r \in {x \in Readers : R[x].pc # "idle"}}

Base == learner.base_model

\* pre_train: cfg = ...; self._base_model = QuantileForecaster(config=cfg)
W_Begin ==
    /\ wr.pc = "idle"
    /\ nops < MaxTransfers
    /\ \E corpus \in SmallCorpora, target \in Targets :
        LET t == PreTrainTarget(learner, ConcRefs(learner, active, rd))
            L1 == [learner EXCEPT !.base_model = t]
        IN  /\ learner' = L1
            /\ heap' = Collect([heap EXCEPT ![t] = NewForecaster("pretrain")],
                               ConcRefs(L1, active, rd))
            /\ wr' = [pc |-> "concat", phase |-> "pre", corpus |-> corpus,
                      target |-> target, series |-> target, old_mu |-> 0, old_sigma |-> 0]
            /\ nops' = nops + 1
    /\ UNCHANGED <<active, disk, last, hist, rd, seen, part1, part4>>

\* pre_train: all_prices = np.concatenate(list(corpus.values()))
W_Concat ==
    /\ wr.pc = "concat"
    /\ wr' = IF wr.corpus.ids = <<>>
             THEN [pc |-> "idle"]
             ELSE [wr EXCEPT !.pc = "fit_check", !.series = Concatenate(wr.corpus)]
    /\ UNCHANGED <<heap, learner, active, disk, last, hist, nops, rd, seen, part1, part4>>

\* fit: the length check
W_FitCheck ==
    /\ wr.pc = "fit_check"
    /\ wr' = IF fit(heap[Base], wr.series).outcome # "ok"
             THEN [pc |-> "idle"]
             ELSE [wr EXCEPT !.pc = "fit_mu"]
    /\ UNCHANGED <<heap, learner, active, disk, last, hist, nops, rd, seen, part1, part4>>

\* fit: self._weights["mu"] = np.mean(returns)
W_FitMu ==
    /\ wr.pc = "fit_mu"
    /\ heap' = [heap EXCEPT ![Base].weights = Assign(@, [mu |-> wr.series.mu])]
    /\ wr' = [wr EXCEPT !.pc = "fit_sigma"]
    /\ UNCHANGED <<learner, active, disk, last, hist, nops, rd, seen, part1, part4>>

\* fit: self._weights["sigma"] = np.std(returns) + 1e-9
W_FitSigma ==
    /\ wr.pc = "fit_sigma"
    /\ heap' = [heap EXCEPT ![Base].weights = Assign(@, [sigma |-> wr.series.sigma])]
    /\ wr' = [wr EXCEPT !.pc = "fit_last"]
    /\ UNCHANGED <<learner, active, disk, last, hist, nops, rd, seen, part1, part4>>

\* fit: self._weights["last_price"] = float(price_series[-1])
W_FitLast ==
    /\ wr.pc = "fit_last"
    /\ heap' = [heap EXCEPT ![Base].weights = Assign(@, [last_price |-> wr.series.last])]
    /\ wr' = [wr EXCEPT !.pc = "fit_flag"]
    /\ UNCHANGED <<learner, active, disk, last, hist, nops, rd, seen, part1, part4>>

\* fit: self._is_fitted = True, and the return to pre_train or fine_tune
W_FitFlag ==
    /\ wr.pc = "fit_flag"
    /\ heap' = [heap EXCEPT ![Base].fitted = TRUE]
    /\ wr' = [wr EXCEPT !.pc = IF wr.phase = "pre" THEN "pre_done" ELSE "blend_mu"]
    /\ UNCHANGED <<learner, active, disk, last, hist, nops, rd, seen, part1, part4>>

\* pre_train: self._pretrained = True; self._pretrain_sources = list(corpus.keys())
W_PreDone ==
    /\ wr.pc = "pre_done"
    /\ learner' = [learner EXCEPT !.pretrained = TRUE, !.pretrain_sources = wr.corpus.ids]
    /\ wr' = [wr EXCEPT !.pc = "fine_guard"]
    /\ UNCHANGED <<heap, active, disk, last, hist, nops, rd, seen, part1, part4>>

\* fine_tune: the guard, then old_mu and old_sigma are read
W_FineGuard ==
    /\ wr.pc = "fine_guard"
    /\ wr' = IF FineTuneGuard(learner)
             THEN [pc |-> "idle"]
             ELSE [wr EXCEPT !.pc = "fit_check", !.phase = "fine", !.series = wr.target,
                             !.old_mu = Get(heap[Base].weights, "mu", 0),
                             !.old_sigma = Get(heap[Base].weights, "sigma", STAT_ONE)]
    /\ UNCHANGED <<heap, learner, active, disk, last, hist, nops, rd, seen, part1, part4>>

\* fine_tune: self._base_model._weights["mu"] = alpha * old_mu + (1 - alpha) * ...
W_BlendMu ==
    /\ wr.pc = "blend_mu"
    /\ heap' = [heap EXCEPT ![Base].weights =
                    Assign(@, [mu |-> Blend(wr.old_mu, @["mu"])])]
    /\ wr' = [wr EXCEPT !.pc = "blend_sigma"]
    /\ UNCHANGED <<learner, active, disk, last, hist, nops, rd, seen, part1, part4>>

\* fine_tune: self._base_model._weights["sigma"] = alpha * old_sigma + ...
W_BlendSigma ==
    /\ wr.pc = "blend_sigma"
    /\ heap' = [heap EXCEPT ![Base].weights =
                    Assign(@, [sigma |-> Blend(wr.old_sigma, @["sigma"])])]
    /\ wr' = [wr EXCEPT !.pc = "finetuned"]
    /\ UNCHANGED <<learner, active, disk, last, hist, nops, rd, seen, part1, part4>>

\* fine_tune: self._finetuned = True
W_Finetuned ==
    /\ wr.pc = "finetuned"
    /\ learner' = [learner EXCEPT !.finetuned = TRUE]
    /\ wr' = [wr EXCEPT !.pc = "swap"]
    /\ UNCHANGED <<heap, active, disk, last, hist, nops, rd, seen, part1, part4>>

\* transfer_learn: the learner's forecaster becomes the active one, in one
\* assignment.  seen collects the states of the models that were made active.
W_Swap ==
    /\ wr.pc = "swap"
    /\ active' = model(learner).obj
    /\ seen' = seen \cup {ModelState(heap[model(learner).obj])}
    /\ heap' = Collect(heap, ConcRefs(learner, model(learner).obj, rd))
    /\ wr' = [pc |-> "idle"]
    /\ UNCHANGED <<learner, disk, last, hist, nops, rd, part1, part4>>

\* A forecast request takes the active forecaster.
R_Begin(r) ==
    /\ rd[r].pc = "idle"
    /\ rd' = [rd EXCEPT ![r] = [pc |-> "fitted", obj |-> active, overlap |-> wr.pc # "idle",
                                obs |-> [fitted |-> FALSE, mu |-> 0, sigma |-> 0]]]
    /\ UNCHANGED <<heap, learner, active, disk, last, hist, nops, wr, seen, part1, part4>>

\* predict: if self._is_fitted
R_Fitted(r) ==
    /\ rd[r].pc = "fitted"
    /\ rd' = [rd EXCEPT ![r].obs.fitted = heap[rd[r].obj].fitted,
                        ![r].overlap = @ \/ wr.pc # "idle",
                        ![r].pc = IF heap[rd[r].obj].fitted THEN "mu" ELSE "done"]
    /\ UNCHANGED <<heap, learner, active, disk, last, hist, nops, wr, seen, part1, part4>>

\* predict: mu = self._weights["mu"]
R_Mu(r) ==
    /\ rd[r].pc = "mu"
    /\ rd' = [rd EXCEPT ![r].obs.mu = Get(heap[rd[r].obj].weights, "mu", 0),
                        ![r].overlap = @ \/ wr.pc # "idle",
                        ![r].pc = "sigma"]
    /\ UNCHANGED <<heap, learner, active, disk, last, hist, nops, wr, seen, part1, part4>>

\* predict: sigma = self._weights["sigma"]
R_Sigma(r) ==
    /\ rd[r].pc = "sigma"
    /\ rd' = [rd EXCEPT ![r].obs.sigma = Get(heap[rd[r].obj].weights, "sigma", 0),
                        ![r].overlap = @ \/ wr.pc # "idle",
                        ![r].pc = "done"]
    /\ UNCHANGED <<heap, learner, active, disk, last, hist, nops, wr, seen, part1, part4>>

\* The request returns and lets go of the forecaster.
R_Done(r) ==
    /\ rd[r].pc = "done"
    /\ rd' = [rd EXCEPT ![r] = IdleReader]
    /\ heap' = Collect(heap, ConcRefs(learner, active, [rd EXCEPT ![r] = IdleReader]))
    /\ UNCHANGED <<learner, active, disk, last, hist, nops, wr, seen, part1, part4>>

Writer ==
    \/ W_Begin \/ W_Concat \/ W_FitCheck \/ W_FitMu \/ W_FitSigma \/ W_FitLast
    \/ W_FitFlag \/ W_PreDone \/ W_FineGuard \/ W_BlendMu \/ W_BlendSigma
    \/ W_Finetuned \/ W_Swap

Reader(r) == R_Begin(r) \/ R_Fitted(r) \/ R_Mu(r) \/ R_Sigma(r) \/ R_Done(r)

NextConc == Writer \/ \E r \in Readers : Reader(r)

InitConc ==
    /\ IdleTrigger
    /\ InitObjects("default")
    /\ wr = [pc |-> "idle"]
    /\ rd = [r \in Readers |-> IdleReader]
    /\ seen = {ModelState(NewForecaster("default"))}
    /\ IdleModels

SpecConc == InitConc /\ [][NextConc]_vars

(***************************************************************************)
(* C3. A request that runs concurrently with transfer_learn observes the   *)
(* active forecaster as a complete model: the forecaster it holds is, at   *)
(* every step of the request, in the state of a model that was made        *)
(* active (the initial one or a fine-tuned one after its blend), and the   *)
(* fitted flag, mu and sigma it has read are those of one such model.      *)
(***************************************************************************)
C3_ReadersSeeCompleteModel ==
    \A r \in Readers :
        rd[r].pc # "idle" =>
            /\ ModelState(heap[rd[r].obj]) \in seen
            /\ rd[r].pc = "done" => rd[r].obs \in seen

\* A request has read a fitted model while the second transfer_learn was
\* between its two blend assignments.
C3_Witness ==
    \E r \in Readers :
        /\ rd[r].pc = "done"
        /\ rd[r].overlap
        /\ rd[r].obs.fitted
        /\ wr.pc = "blend_sigma"
        /\ rd[r].obj = active
        /\ active # learner.base_model

(***************************************************************************)
(* C11. Every QuantilePrediction that predict returns, fitted or not, for  *)
(* any horizon day and any recent-price window, has p10 <= p50 <= p90      *)
(* after the rounding to 4 decimals.  (A comparison with nan is false.)    *)
(***************************************************************************)
C11_QuantileOrdering ==
    (last.op = "predict" /\ last.outcome = "ok") =>
        \A i \in 1..Len(last.preds) :
            /\ ~last.preds[i].nan
            /\ last.preds[i].p10 <= last.preds[i].p50
            /\ last.preds[i].p50 <= last.preds[i].p90

(***************************************************************************)
(* C12. save(path) of a fitted forecaster followed by load(path) into a    *)
(* fresh QuantileForecaster succeeds, restores mu, sigma and the last      *)
(* price exactly and sets the fitted flag, so that for every recent-price  *)
(* window and every valid horizon the loaded forecaster predicts what the  *)
(* saved one predicts.                                                     *)
(***************************************************************************)
C12_SaveLoadRoundTrip ==
    (last.op = "load_fresh" /\ last.after_save /\ last.saved.fitted) =>
        /\ last.outcome = "ok"
        /\ last.loaded.fitted
        /\ last.loaded.weights = last.saved.weights
        /\ \A recent \in Series, h \in 1..Config(last.saved.cfg).max_horizon :
               predict(last.loaded, recent, h) = predict(last.saved, recent, h)

(***************************************************************************)
(* C13. The status snapshot follows the lifecycle: a new learner reports   *)
(* pretrained = false, finetuned = false and no sources; after a           *)
(* successful pre_train it reports pretrained = true, pretrain_sources     *)
(* equal to the security ids of that corpus, and finetuned false; after a  *)
(* successful fine_tune it reports finetuned = true; frozen_layers is      *)
(* always the configured value.                                            *)
(***************************************************************************)
C13_StatusLifecycle ==
    /\ status(learner).frozen_layers = FREEZE_LAYERS
    /\ (~hist.pre_train_called /\ ~hist.load_called) =>
          /\ ~status(learner).pretrained
          /\ ~status(learner).finetuned
          /\ status(learner).pretrain_sources = <<>>
    /\ (last.op = "pre_train" /\ last.outcome = "ok") =>
          /\ status(learner).pretrained
          /\ status(learner).pretrain_sources = last.corpus.ids
          /\ ~status(learner).finetuned
    /\ (last.op = "fine_tune" /\ last.outcome = "ok") =>
          status(learner).finetuned

(***************************************************************************)
(* C14. Every price sequence of a corpus that pre_train trains on has at   *)
(* least lookback + max_horizon points: pre_train does not succeed on a    *)
(* corpus that contains a shorter sequence, even when the concatenation    *)
(* of its sequences is long enough.                                        *)
(***************************************************************************)
C14_EverySequenceLongEnough ==
    (last.op = "pre_train" /\ last.outcome = "ok") =>
        \A i \in 1..Len(last.corpus.lens) :
            last.corpus.lens[i] >= Config("pretrain").seq_len + Config("pretrain").max_horizon

(***************************************************************************)
(* C15 as stated.  For any configured thresholds price_up and price_down   *)
(* are never both true, and the order of the rows of the decision table    *)
(* does not change the result.                                             *)
(***************************************************************************)
C15_DownRowsFirst(rows) == << rows[3], rows[4], rows[1], rows[2], rows[5] >>

C15_NeverBothDirections ==
    trig.call.called =>
        LET rows == C1_Rows(trig.cfg, trig.call.q, trig.call.l, trig.call.price)
            alt  == C15_DownRowsFirst(rows)
        IN  /\ ~(/\ trig.call.l.price_up_prob >= trig.cfg.price_up_thr
                 /\ trig.call.l.price_down_prob >= trig.cfg.price_down_thr)
            /\ trig.call.row.signal = alt[C1_FirstMatch(alt)].signal

(***************************************************************************)
(* C15, amended.  When the two direction thresholds sum to more than 1     *)
(* (the defaults: 0.55 + 0.55) and price_up_prob + price_down_prob <= 1,   *)
(* price_up and price_down are never both true, at most one directional    *)
(* row matches, and evaluate's row is the one the table gives with its     *)
(* down rows placed first.                                                 *)
(***************************************************************************)
C15_ExclusiveWhenThresholdsExceedOne ==
    (/\ trig.call.called
     /\ trig.cfg.price_up_thr + trig.cfg.price_down_thr > PROB_ONE
     /\ trig.call.l.price_up_prob + trig.call.l.price_down_prob <= PROB_ONE) =>
        LET rows == C1_Rows(trig.cfg, trig.call.q, trig.call.l, trig.call.price)
            alt  == C15_DownRowsFirst(rows)
            r    == alt[C1_FirstMatch(alt)]
        IN  /\ ~(/\ trig.call.l.price_up_prob >= trig.cfg.price_up_thr
                 /\ trig.call.l.price_down_prob >= trig.cfg.price_down_thr)
            /\ Cardinality({i \in 1..4 : rows[i].match}) <= 1
            /\ trig.call.row.signal = r.signal
            /\ trig.call.row.confidence = r.confidence
            /\ trig.call.row.timing = r.timing

\* The default thresholds, the up probability exactly at its threshold, and
\* the enter row taken.
C15_Witness ==
    /\ trig.call.called
    /\ trig.cfg.price_up_thr + trig.cfg.price_down_thr > PROB_ONE
    /\ trig.call.l.price_up_prob = trig.cfg.price_up_thr
    /\ trig.call.row.signal = "enter"

(***************************************************************************)
(*                 SyntheticAugmenter used on its own                      *)
(***************************************************************************)
\* One draw per generated array: all low, all high, alternating
DrawLists ==
    { [i \in 1..5 |-> -1], [i \in 1..5 |-> 1], [i \in 1..5 |-> IF i % 2 = 1 THEN 1 ELSE -1] }

AugFit ==
    \E s \in AugSeries :
        LET r == aug_fit(aug, s)
        IN  /\ aug' = r.obj
            /\ call' = [op |-> "aug_fit", outcome |-> r.outcome, series |-> s,
                        metrics |-> r.metrics, before |-> aug,
                        fit_ok |-> (call.fit_ok \/ r.outcome = "ok")]
            /\ UNCHANGED <<liq, expl, part1, part2, part3>>

Generate ==
    \E n \in Counts, zs \in DrawLists :
        LET r == generate(aug, n, zs)
        IN  /\ aug' = r.obj
            /\ call' = [op |-> "generate", outcome |-> r.outcome, n |-> n,
                        series |-> r.series, before |-> aug, fit_ok |-> call.fit_ok]
            /\ UNCHANGED <<liq, expl, part1, part2, part3>>

GenerateOhlcv ==
    \E n \in Counts, zs \in DrawLists, zi \in IntradayDraws, vol \in Volumes :
        LET r == generate_ohlcv(aug, n, zs, zi, vol)
        IN  /\ aug' = r.obj
            /\ call' = [op |-> "generate_ohlcv", outcome |-> r.outcome, n |-> n,
                        results |-> r.results, before |-> aug, fit_ok |-> call.fit_ok]
            /\ UNCHANGED <<liq, expl, part1, part2, part3>>

AugStatus ==
    /\ call' = [op |-> "aug_status", outcome |-> "ok", out |-> aug_status(aug),
                before |-> aug, fit_ok |-> call.fit_ok]
    /\ UNCHANGED <<liq, aug, expl, part1, part2, part3>>

NextAugmenter == AugFit \/ Generate \/ GenerateOhlcv \/ AugStatus

InitAugmenter ==
    /\ IdleTrigger
    /\ InitObjects("default")
    /\ IdleConc
    /\ \E cfg \in {"default", "custom"} : InitModels(cfg, EmptyDict)

SpecAugmenter == InitAugmenter /\ [][NextAugmenter]_vars

(***************************************************************************)
(*                   LiquidityModel used on its own                        *)
(***************************************************************************)
\* The OHLCV dicts given to predict: a flat day, rising and falling days, an
\* opening price of 0, dicts that lack keys.
Ohlcvs ==
    { [open |-> 10, high |-> 11, low |-> 9, close |-> 10, volume |-> 5000],
      [open |-> 10, high |-> 13, low |-> 10, close |-> 12, volume |-> 5000],
      [open |-> 10, high |-> 13, low |-> 10, close |-> 13, volume |-> 5000],
      [open |-> 10, high |-> 10, low |-> 7, close |-> 7, volume |-> 0],
      [open |-> 0, high |-> 5, low |-> 0, close |-> 5, volume |-> 0],
      [open |-> 0, high |-> 0, low |-> 0, close |-> 0, volume |-> 0],
      [close |-> 1],
      EmptyDict }

\* The order books given to predict: None, the empty dict, and dicts.
OrderBooks ==
    { NoBook,
      Book(EmptyDict),
      Book([spread |-> 5, depth |-> 10, imbalance |-> 0]),
      Book([spread |-> 5, depth |-> 180, imbalance |-> 10]),
      Book([spread |-> 1, depth |-> 2000]),
      Book([spread |-> 1000000, depth |-> 0, imbalance |-> -1000000]) }

LiqFitOn(P, O) ==
    \E prices \in P, obs \in O :
        LET r == liq_fit(liq, prices, obs)
        IN  /\ liq' = r.obj
            /\ call' = [op |-> "liq_fit", outcome |-> r.outcome, prices |-> prices,
                        obs |-> obs, metrics |-> r.metrics, before |-> liq,
                        fit_ok |-> call.fit_ok]
            /\ UNCHANGED <<aug, expl, part1, part2, part3>>

LiqPredictOn(O, B) ==
    \E ohlcv \in O, order_book \in B :
        LET r == liq_predict(liq, ohlcv, order_book)
        IN  /\ liq' = r.obj
            /\ call' = [op |-> "liq_predict", outcome |-> r.outcome,
                        ohlcv |-> ohlcv, order_book |-> order_book,
                        ohlcv_after |-> r.ohlcv, order_book_after |-> r.order_book,
                        out |-> r.out, before |-> liq, fit_ok |-> call.fit_ok]
            /\ UNCHANGED <<aug, expl, part1, part2, part3>>

LiqFit == LiqFitOn(Series, ObSeries)
LiqPredict == LiqPredictOn(Ohlcvs, OrderBooks)

NextLiquidity == LiqFit \/ LiqPredict

InitLiquidity == IdleTrigger /\ InitObjects("default") /\ IdleConc /\ IdleModels

SpecLiquidity == InitLiquidity /\ [][NextLiquidity]_vars

(***************************************************************************)
(*                  ForecastExplainer used on its own                      *)
(***************************************************************************)
Baselines ==
    { EmptyDict,
      [close |-> 100, open |-> 100, volume |-> 3000, spread |-> 1] }

FeatureMaps ==
    { <<>>,
      << [k |-> "exotic_feature", v |-> 42] >>,
      << [k |-> "close", v |-> 101], [k |-> "open", v |-> 100], [k |-> "volume", v |-> 5000],
         [k |-> "spread", v |-> 1] >>,
      << [k |-> "volume", v |-> 3000], [k |-> "rsi", v |-> 55], [k |-> "close", v |-> 97] >> }

\* SHAP maps given to top_drivers, entries of equal magnitude included
ShapMaps ==
    { <<>>,
      << [k |-> "close", v |-> 20] >>,
      << [k |-> "close", v |-> 20], [k |-> "volume", v |-> -60000], [k |-> "rsi", v |-> 50],
         [k |-> "spread", v |-> 0] >>,
      << [k |-> "open", v |-> -5], [k |-> "high", v |-> 5], [k |-> "macd", v |-> 7],
         [k |-> "exotic_feature", v |-> -7] >> }

TopKs == {-1, 0, 1, 2, 5}

\* (p10, p90) pairs, in units of 1e-4
QuantilePairs ==
    { [p10 |-> 900000, p90 |-> 1100000],
      [p10 |-> 950000, p90 |-> 1050000],
      [p10 |-> 10000,  p90 |-> 10001],
      [p10 |-> 10000,  p90 |-> 10004],
      [p10 |-> 0,      p90 |-> 4272],
      [p10 |-> 123456, p90 |-> 234567] }

\* confidence levels, in units of 1e-7
Levels == {5000000, 8000000, 8000005, 8000020, 8500000, 9000000, 9040000, 9500000, 9900000}

ComputeShapOn(F) ==
    \E features \in F, fn \in PredictFns :
        LET r == compute_shap(expl, features, fn)
        IN  /\ expl' = r.obj
            /\ call' = [op |-> "compute_shap", outcome |-> r.outcome,
                        features |-> features, predict_fn |-> fn,
                        features_after |-> r.features, out |-> r.out,
                        before |-> expl, fit_ok |-> call.fit_ok]
            /\ UNCHANGED <<liq, aug, part1, part2, part3>>

ConfidenceIntervalOn(Q, C) ==
    \E q \in Q, confidence \in C :
        LET r == confidence_interval(expl, q.p10, q.p90, confidence)
        IN  /\ expl' = r.obj
            /\ call' = [op |-> "confidence_interval", outcome |-> r.outcome,
                        p10 |-> q.p10, p90 |-> q.p90, confidence |-> confidence,
                        low |-> r.low, high |-> r.high,
                        before |-> expl, fit_ok |-> call.fit_ok]
            /\ UNCHANGED <<liq, aug, part1, part2, part3>>

TopDriversOn(S, K) ==
    \E shap_values \in S, top_k \in K :
        LET r == top_drivers(expl, shap_values, top_k)
        IN  /\ expl' = r.obj
            /\ call' = [op |-> "top_drivers", outcome |-> r.outcome,
                        shap_values |-> shap_values, top_k |-> top_k,
                        shap_values_after |-> r.shap_values, out |-> r.out,
                        before |-> expl, fit_ok |-> call.fit_ok]
            /\ UNCHANGED <<liq, aug, part1, part2, part3>>

ComputeShap == ComputeShapOn(FeatureMaps)
ConfidenceInterval == ConfidenceIntervalOn(QuantilePairs, Levels)
TopDrivers == TopDriversOn(ShapMaps, TopKs)

NextExplainer == ComputeShap \/ ConfidenceInterval \/ TopDrivers

InitExplainer ==
    /\ IdleTrigger
    /\ InitObjects("default")
    /\ IdleConc
    /\ \E baseline \in Baselines : InitModels("default", baseline)

SpecExplainer == InitExplainer /\ [][NextExplainer]_vars

(***************************************************************************)
(*     The reading operations of the four components, side by side         *)
(***************************************************************************)
\* A few inputs for each operation
ReadSeries == {s \in Series : s.len \in {1, 60}}
ReadHorizons == {0, 1, MAX_HORIZON}
ReadQuantiles == {q \in QuantilePredictions : q.p90 - q.p10 \in {1, 20}}
ReadLiquidity ==
    {l \in LiquidityPredictions :
        /\ l.liquidity_high_prob = 7000
        /\ l.price_down_prob = 2000
        /\ l.price_up_prob \in {2000, 7001}}
ReadPrices == {100}
ReadOhlcvs == {o \in Ohlcvs : DOMAIN o = {"close"} \/ (DOMAIN o /= {} /\ o["close"] = 13)}
ReadBooks == {NoBook, Book(EmptyDict), Book([spread |-> 1, depth |-> 2000])}
ReadObSeries == {o \in ObSeries : o.std_spread > 0}
ReadFeatureMaps == {f \in FeatureMaps : Len(f) \in {0, 4}}
ReadShapMaps == {m \in ShapMaps : Len(m) = 4}
ReadPairs == {q \in QuantilePairs : q.p10 = 950000}
ReadLevels == {CONF_80, 9500000}
ReadTopKs == {2}

ReadFit == FitOn(ReadSeries)
ReadPredict == PredictOn(ReadSeries, ReadHorizons)
ReadEvaluate == EvaluateOn(ReadQuantiles, ReadLiquidity, ReadPrices) /\ UNCHANGED <<part2, part3, part4>>
ReadLiqFit == LiqFitOn(ReadSeries, ReadObSeries)
ReadLiqPredict == LiqPredictOn(ReadOhlcvs, ReadBooks)
ReadComputeShap == ComputeShapOn(ReadFeatureMaps)
ReadConfidenceInterval == ConfidenceIntervalOn(ReadPairs, ReadLevels)
ReadTopDrivers == TopDriversOn(ReadShapMaps, ReadTopKs)

NextReads ==
    \/ ReadFit
    \/ ReadPredict
    \/ ReadEvaluate
    \/ ReadLiqFit
    \/ ReadLiqPredict
    \/ ReadComputeShap
    \/ ReadConfidenceInterval
    \/ ReadTopDrivers

InitReads ==
    /\ IdleTrigger
    /\ InitObjects("default")
    /\ IdleConc
    /\ InitModels("default", [close |-> 100, open |-> 100, volume |-> 3000, spread |-> 1])

SpecReads == InitReads /\ [][NextReads]_vars

(***************************************************************************)
(* C16.  QuantileForecaster.predict, LiquidityModel.predict,               *)
(* ExecutionTrigger.evaluate and ForecastExplainer.compute_shap,           *)
(* confidence_interval and top_drivers only read: a step that is one of    *)
(* these calls leaves the forecaster, the liquidity model, the thresholds  *)
(* and the baseline as they were, and the OHLCV dict, the order book, the  *)
(* feature map and the SHAP map it was given are the same after the call.  *)
(***************************************************************************)
C16_ReadingOps == {"liq_predict", "compute_shap", "confidence_interval", "top_drivers"}

C16_ReadStep ==
    /\ (last' /= last /\ last'.op = "predict") =>
            /\ heap' = heap
            /\ last'.before = heap[1]
    /\ (trig'.call /= trig.call) =>
            trig'.cfg = trig.cfg
    /\ (call' /= call /\ call'.op \in C16_ReadingOps) =>
            /\ liq' = liq
            /\ expl' = expl
            /\ call'.before = IF call'.op = "liq_predict" THEN liq ELSE expl
    /\ (call' /= call /\ call'.op = "liq_predict") =>
            /\ call'.ohlcv_after = call'.ohlcv
            /\ call'.order_book_after = call'.order_book
    /\ (call' /= call /\ call'.op = "compute_shap") =>
            call'.features_after = call'.features
    /\ (call' /= call /\ call'.op = "top_drivers") =>
            call'.shap_values_after = call'.shap_values

C16_ReadsLeaveStateAndInputs == [][C16_ReadStep]_vars

\* The forecaster and the trigger have been read, and the latest call is a
\* predict of the fitted liquidity model on an order book that lacks a key.
C16_Witness ==
    /\ last.op = "predict" /\ last.outcome = "ok" /\ heap[1].fitted
    /\ trig.call.called
    /\ liq.fitted
    /\ call.op = "liq_predict"
    /\ call.order_book.given
    /\ DOMAIN call.order_book.dict = {"spread", "depth"}

(***************************************************************************)
(* C17.  generate and generate_ohlcv called on an augmenter that is not    *)
(* fitted fail with RuntimeError, produce no series and leave the          *)
(* augmenter as it was; once a fit has succeeded, neither of them fails    *)
(* with RuntimeError again.                                                *)
(***************************************************************************)
C17_Produced == IF call.op = "generate" THEN call.series ELSE call.results

C17_GenerateNeedsFit ==
    call.op \in {"generate", "generate_ohlcv"} =>
        /\ ~call.before.fitted =>
              /\ call.outcome = "RuntimeError"
              /\ C17_Produced = <<>>
              /\ aug = call.before
        /\ call.fit_ok => call.outcome /= "RuntimeError"
        /\ call.fit_ok <=> call.before.fitted

\* generate_ohlcv(3) has returned three dicts after a fit that succeeded.
C17_Witness ==
    /\ call.op = "generate_ohlcv"
    /\ call.fit_ok
    /\ call.outcome = "ok"
    /\ Len(call.results) = 3

(***************************************************************************)
(* C18.  After fit, generate(n) with a positive n returns exactly n        *)
(* series, each of the configured length, and every generated value is a   *)
(* number strictly greater than 0.                                         *)
(***************************************************************************)
C18_GenerateCountLengthPositive ==
    (/\ call.op = "generate"
     /\ call.before.fitted
     /\ call.n.given
     /\ call.n.n > 0) =>
        /\ call.outcome = "ok"
        /\ Len(call.series) = call.n.n
        /\ \A i \in DOMAIN call.series :
              /\ Len(call.series[i]) = AugConfig(call.before.cfg).seq_len
              /\ \A k \in DOMAIN call.series[i] :
                    ~call.series[i][k].nan /\ call.series[i][k].v > 0

(***************************************************************************)
(* C19.  Every LiquidityPrediction that predict returns, on a fitted or    *)
(* an unfitted model, with or without an order book, has its five          *)
(* probabilities in [0, 1], price_up_prob + price_flat_prob +              *)
(* price_down_prob within 0.01 of 1 and liquidity_high_prob +              *)
(* liquidity_low_prob within 0.01 of 1.                                    *)
(***************************************************************************)
C19_Probability(x) == ~x.nan /\ 0 <= x.v /\ x.v <= PROB_ONE

C19_ProbabilitiesValid ==
    call.op = "liq_predict" =>
        LET out == call.out
        IN  /\ \A f \in DOMAIN out : C19_Probability(out[f])
            /\ Abs(out.price_up_prob.v + out.price_flat_prob.v + out.price_down_prob.v
                   - PROB_ONE) <= 100
            /\ Abs(out.liquidity_high_prob.v + out.liquidity_low_prob.v - PROB_ONE) <= 100

(***************************************************************************)
(* C20.  confidence_interval(p10, p90, c) with p10 < p90 returns           *)
(* (p10, p90) for c = 0.80; for every other level the interval is          *)
(* symmetric around (p10 + p90) / 2 (to within the rounding of the bounds  *)
(* to 4 decimals) and its half-width is (p90 - p10) / 2 times the ratio of *)
(* the z-score of c to the z-score of 80%; and the interval strictly       *)
(* widens over the levels 50%, 80%, 90%, 95%, 99%.                         *)
(***************************************************************************)
\* The two-sided normal z-score of a confidence level, in units of 1e-4
C20_ZScore(confidence) ==
    CASE confidence = 5000000 -> 6745
      [] confidence = 8500000 -> 14395
      [] confidence = 9000000 -> 16449
      [] confidence = 9040000 -> 16646
      [] confidence = 9500000 -> 19600
      [] confidence = 9900000 -> 25758
      [] OTHER -> Z_80

C20_Width(p10, p90, confidence) ==
    LET r == confidence_interval(expl, p10, p90, confidence) IN r.high - r.low

C20_Ladder == << 5000000, CONF_80, 9000000, 9500000, 9900000 >>

C20_IntervalRescaledAndWidening ==
    (call.op = "confidence_interval" /\ call.p10 < call.p90) =>
        /\ call.confidence = CONF_80 => (call.low = call.p10 /\ call.high = call.p90)
        /\ call.confidence /= CONF_80 =>
              /\ Abs(call.low + call.high - call.p10 - call.p90) <= 1
              /\ call.low = Rescaled(call.p10, call.p90 - call.p10,
                                     Z_80 - C20_ZScore(call.confidence))
              /\ call.high = Rescaled(call.p90, call.p90 - call.p10,
                                      C20_ZScore(call.confidence) - Z_80)
        /\ \A i \in 1..4 :
              C20_Width(call.p10, call.p90, C20_Ladder[i])
                < C20_Width(call.p10, call.p90, C20_Ladder[i + 1])

\* ---------------------------------------------------------------------------
\* C21.  compute_shap with a predict_fn returns one attribution per key of the
\* feature map, in the map's order, each predict_fn(features) minus
\* predict_fn(features with that key set to its baseline, 0 without one); for
\* the additive predict_fn, the sum of the values, each attribution is the
\* feature value minus its baseline value.
C21_Replaced(features, i, baseline) ==
    [j \in DOMAIN features |->
        IF j = i
        THEN [k |-> features[j].k,
              v |-> IF features[j].k \in DOMAIN baseline THEN baseline[features[j].k] ELSE 0]
        ELSE features[j]]

HORIZON_GE == 1
HORIZON_LE == 5
HORIZON_DEFAULT == 1
N_SYNTHETIC_GE == 1
N_SYNTHETIC_LE == 50
N_SYNTHETIC_DEFAULT == 5
HTTP_OK == 200
HTTP_UNPROCESSABLE == 422
HTTP_SERVER_ERROR == 500

\* An optional integer of a request body: absent, or an integer.
HorizonFields == {NoCount} \cup {[given |-> TRUE, n |-> n] : n \in {-1, 0, 1, 3, 5, 6, 51}}
NSyntheticFields == {NoCount} \cup {[given |-> TRUE, n |-> n] : n \in {-5, 0, 1, 5, 50, 51, 100}}
Methods == {"vae", "gan"}

IntFieldDefaulted(field, default, ge, le) ==
    IF field.given /\ field.n >= ge /\ field.n <= le
    THEN [valid |-> TRUE, value |-> field.n]
    ELSE [valid |-> TRUE, value |-> default]

\* int = Field(default, ge=..., le=...)
IntField(field, default, ge, le) ==
    IF ~field.given THEN [valid |-> TRUE, value |-> default]
    ELSE IF field.n >= ge /\ field.n <= le THEN [valid |-> TRUE, value |-> field.n]
    ELSE [valid |-> FALSE, value |-> field.n]

\* FeatureInput(**body) followed by model_dump()
FeatureInput(body) ==
    LET h == IntField(body.horizon, HORIZON_DEFAULT, HORIZON_GE, HORIZON_LE)
    IN  [valid |-> h.valid, horizon |-> h.value, history |-> body.history]

\* AugmentRequest(**body)
AugmentRequest(body) ==
    LET n == IntField(body.n_synthetic, N_SYNTHETIC_DEFAULT, N_SYNTHETIC_GE, N_SYNTHETIC_LE)
    IN  [valid |-> n.valid, n_synthetic |-> n.value, price_history |-> body.price_history,
         method |-> body.method]

NoCore == [invoked |-> FALSE]

\* The orchestrator's explain_forecast and recommend_execution forecast one
\* day ahead from the snapshot's history; augment fits a generator on the
\* price history and reports the number of series it generated.
service_point_forecast(H, act, features) == service_predict(H, act, features.history, 1)

service_augment(price_history, n_synthetic, method) ==
    LET f == aug_fit(NewAugmenter("default"), price_history)
    IN  [outcome |-> f.outcome,
         out |-> [n_generated |-> IF f.outcome = "ok" THEN n_synthetic ELSE 0,
                  method |-> method]]

StatusOf(outcome) == IF outcome = "ok" THEN HTTP_OK ELSE HTTP_SERVER_ERROR

\* One request to an endpoint that takes a FeatureInput: op names the
\* endpoint, core the orchestrator method it calls.
FeatureEndpoint(op, core, body) ==
    LET features == FeatureInput(body)
        r == IF core = "predict"
             THEN service_predict(heap, active, features.history, features.horizon)
             ELSE service_point_forecast(heap, active, features)
    IN  /\ call' = IF ~features.valid
                   THEN [op |-> op, body |-> body, status |-> HTTP_UNPROCESSABLE,
                         core |-> NoCore, fit_ok |-> call.fit_ok]
                   ELSE [op |-> op, body |-> body, status |-> StatusOf(r.outcome),
                         core |-> [invoked |-> TRUE, op |-> core, outcome |-> r.outcome,
                                   horizon |-> features.horizon],
                         fit_ok |-> call.fit_ok]
        /\ UNCHANGED <<liq, aug, expl, part1, part2, part3>>

FeatureBodies == [horizon : HorizonFields, history : Series]
AugmentBodies == [n_synthetic : NSyntheticFields, price_history : AugSeries, method : Methods]

forecast_endpoint == \E body \in FeatureBodies : FeatureEndpoint("forecast", "predict", body)

explain_endpoint ==
    \E body \in FeatureBodies : FeatureEndpoint("explain", "explain_forecast", body)

recommend_endpoint ==
    \E body \in FeatureBodies : FeatureEndpoint("recommend", "recommend_execution", body)

augment_endpoint ==
    \E body \in AugmentBodies :
        LET req == AugmentRequest(body)
            r == service_augment(req.price_history, req.n_synthetic, req.method)
        IN  /\ call' = IF ~req.valid
                       THEN [op |-> "augment", body |-> body, status |-> HTTP_UNPROCESSABLE,
                             core |-> NoCore, fit_ok |-> call.fit_ok]
                       ELSE [op |-> "augment", body |-> body, status |-> StatusOf(r.outcome),
                             core |-> [invoked |-> TRUE, op |-> "augment",
                                       outcome |-> r.outcome,
                                       n_synthetic |-> req.n_synthetic,
                                       n_generated |-> r.out.n_generated],
                             fit_ok |-> call.fit_ok]
            /\ UNCHANGED <<liq, aug, expl, part1, part2, part3>>

NextRoutes == forecast_endpoint \/ explain_endpoint \/ recommend_endpoint \/ augment_endpoint

InitRoutes == IdleTrigger /\ InitObjects("default") /\ IdleConc /\ IdleModels

SpecRoutes == InitRoutes /\ [][NextRoutes]_vars

\* ---------------------------------------------------------------------------
\* C22.  A forecast, explain or recommend request whose horizon is outside
\* [1, 5], and an augment request whose n_synthetic is outside [1, 50], is
\* answered with a validation error and the orchestrator is not called for
\* it; a request that does reach the orchestrator carries the value the
\* caller gave, and the default only when the caller gave none.
C22_FeatureOps == {"forecast", "explain", "recommend"}

C22_OutOfRangeRejected ==
    /\ call.op \in C22_FeatureOps =>
          /\ (call.body.horizon.given /\ call.body.horizon.n \notin 1..5) =>
                (call.status = 422 /\ ~call.core.invoked)
          /\ call.core.invoked =>
                call.core.horizon = IF call.body.horizon.given THEN call.body.horizon.n ELSE 1
    /\ call.op = "augment" =>
          /\ (call.body.n_synthetic.given /\ call.body.n_synthetic.n \notin 1..50) =>
                (call.status = 422 /\ ~call.core.invoked)
          /\ call.core.invoked =>
                call.core.n_synthetic =
                    IF call.body.n_synthetic.given THEN call.body.n_synthetic.n ELSE 5

C22_Witness ==
    /\ call.op = "forecast"
    /\ call.body.horizon = [given |-> TRUE, n |-> 6]
    /\ call.status = 422
    /\ ~call.core.invoked

\* ---------------------------------------------------------------------------
\* C23.  A pre_train call that fails leaves the learner as it was before the
\* call: the same forecaster with the same fitted flag, mu and sigma, and
\* the same pretrained flag, finetuned flag and pretrain_sources.
C23_FailedPreTrainLeavesLearner ==
    (last.op = "pre_train" /\ last.outcome # "ok") =>
        /\ learner.pretrained = last.before.learner.pretrained
        /\ learner.finetuned = last.before.learner.finetuned
        /\ learner.pretrain_sources = last.before.learner.pretrain_sources
        /\ (learner.base_model = NoObj) = (last.before.learner.base_model = NoObj)
        /\ BaseOf(learner, heap) = last.before.obj

\* ---------------------------------------------------------------------------
\* C24.  In every reachable state a forecaster whose fitted flag is true
\* holds mu and sigma, and predict never fails for lack of them; this
\* includes the state after load of a file written by save on a forecaster
\* that was never fitted.
C24_FittedHoldsMuSigma ==
    /\ \A o \in DOMAIN heap :
          heap[o].fitted => {"mu", "sigma"} \subseteq DOMAIN heap[o].weights
    /\ last.op = "predict" => last.outcome # "KeyError"

(***************************************************************************)
(*   predict on TransferLearner.model while fine_tune runs (SpecRace)      *)
(*                                                                         *)
(* The writer is the one of SpecConc, statement by statement; a reader     *)
(* here takes the forecaster from the learner's model property instead of  *)
(* the orchestrator's active reference.  A reader that starts while        *)
(* fine_tune is running on that forecaster remembers the pair fine_tune    *)
(* read at its start and the pair it will leave at its end.                *)
(***************************************************************************)
InFineTune == wr.pc # "idle" /\ wr.phase = "fine"

Pair(mu, sigma) == [mu |-> mu, sigma |-> sigma]

\* f = learner.model, then predict is entered
R_BeginModel(r) ==
    /\ rd[r].pc = "idle"
    /\ model(learner).outcome = "ok"
    /\ rd' = [rd EXCEPT ![r] =
                [pc |-> "fitted", obj |-> model(learner).obj, overlap |-> wr.pc # "idle",
                 obs |-> [fitted |-> FALSE, mu |-> 0, sigma |-> 0],
                 fine |-> InFineTune,
                 old |-> IF InFineTune THEN Pair(wr.old_mu, wr.old_sigma) ELSE Pair(0, 0),
                 blended |-> IF InFineTune
                             THEN Pair(Blend(wr.old_mu, wr.target.mu),
                                       Blend(wr.old_sigma, wr.target.sigma))
                             ELSE Pair(0, 0)]]
    /\ UNCHANGED <<heap, learner, active, disk, last, hist, nops, wr, seen, part1, part4>>

ModelReader(r) == R_BeginModel(r) \/ R_Fitted(r) \/ R_Mu(r) \/ R_Sigma(r) \/ R_Done(r)

NextRace == Writer \/ \E r \in Readers : ModelReader(r)

InitRace ==
    /\ IdleTrigger
    /\ InitObjects("default")
    /\ wr = [pc |-> "idle"]
    /\ rd = [r \in Readers |-> IdleReader]
    /\ seen = {ModelState(NewForecaster("default"))}
    /\ IdleModels

SpecRace == InitRace /\ [][NextRace]_vars

\* ---------------------------------------------------------------------------
\* C25.  A predict that runs on the learner's forecaster while fine_tune runs
\* on the same learner uses either the (mu, sigma) pair held before
\* fine_tune started or the final blended pair, never the plain fit on the
\* target and never one old and one new value.
C25_PredictSeesOldOrBlended ==
    \A r \in Readers :
        (rd[r].pc = "done" /\ rd[r].fine /\ rd[r].obs.fitted) =>
            Pair(rd[r].obs.mu, rd[r].obs.sigma) \in {rd[r].old, rd[r].blended}

\* ---------------------------------------------------------------------------
\* C26.  Whenever status reports finetuned = true, the forecaster that model
\* returns holds blended parameters: it is never a forecaster that holds
\* exactly the mu and sigma of the last pre-training fit, as it does after
\* a pre_train that follows a fine_tune.
C26_OnlyPreTrained ==
    /\ model(learner).outcome = "ok"
    /\ hist.pre_current
    /\ heap[model(learner).obj].fitted
    /\ heap[model(learner).obj].weights["mu"] = hist.pre_mu
    /\ heap[model(learner).obj].weights["sigma"] = hist.pre_sigma

C26_FinetunedMeansBlended == status(learner).finetuned => ~C26_OnlyPreTrained

\* ---------------------------------------------------------------------------
\* C27.  Whenever evaluate returns enter or exit, the quantile spread
\* fraction of the input, taken as the quotient evaluate computes,
\* (p90 - p10) / (price + 1e-9), is at most spread_max; defer and hold
\* produced by the decision table are returned unchanged.  A spread fraction
\* that is nan is not at most spread_max.
C27_TableKept ==
    LET c == trig.call
    IN  c.row.signal \in {"defer", "hold"} =>
            /\ c.out.signal = c.row.signal
            /\ c.out.timing = c.row.timing
            /\ ~c.out.override

C27_SpreadAtMost(c) ==
    ~c.q.nan /\ (c.q.p90 - c.q.p10) * PROB_ONE <= trig.cfg.spread_max * (c.price + EPS)

C27_ActionableWithinSpread ==
    trig.call.called =>
        /\ trig.call.out.signal \in {"enter", "exit"} => C27_SpreadAtMost(trig.call)
        /\ C27_TableKept

\* ---------------------------------------------------------------------------
\* C28.  Timing next_close is returned only with signal exit and only when
\* spread_frac equals spread_max exactly; an exit row with spread_frac <
\* spread_max is returned as exit with timing intraday, and one with
\* spread_frac > spread_max is overridden to hold, wait_1_day.  spread_frac
\* is the quotient evaluate computes; nan equals nothing.
C28_SpreadEqual(c) ==
    ~c.q.nan /\ (c.q.p90 - c.q.p10) * PROB_ONE = trig.cfg.spread_max * (c.price + EPS)

C28_NextCloseOnlyAtSpreadMax ==
    trig.call.called =>
        LET c == trig.call
        IN  /\ c.out.timing = "next_close" =>
                  (c.out.signal = "exit" /\ C28_SpreadEqual(c))
            /\ (c.row.signal = "exit" /\ SpreadFracBelow(c.q, c.price, trig.cfg.spread_max)) =>
                  (c.out.signal = "exit" /\ c.out.timing = "intraday")
            /\ (c.row.signal = "exit" /\ SpreadFracAbove(c.q, c.price, trig.cfg.spread_max)) =>
                  (c.out.signal = "hold" /\ c.out.timing = "wait_1_day" /\ c.out.override)

\* ---------------------------------------------------------------------------
\* C29.  When the override turns an enter or exit into hold, the returned
\* confidence is the one the overridden row computed, the minimum of the
\* direction probability and liquidity_high_prob, rounded to 4 decimals; it
\* is not recomputed by the hold row's formula 1 - max(up_prob, down_prob),
\* which gives the confidence of a returned hold only when the hold row was
\* taken and no override occurred.
C29_Rounded(c) == {RoundConfidence(c, TRUE), RoundConfidence(c, FALSE)}

C29_RowConfidence(c) ==
    10 * Min(IF c.row.signal = "enter" THEN c.l.price_up_prob ELSE c.l.price_down_prob,
             c.l.liquidity_high_prob)

C29_HoldConfidence(c) == 10 * (PROB_ONE - Max(c.l.price_up_prob, c.l.price_down_prob))

C29_OverrideKeepsRowConfidence ==
    trig.call.called =>
        LET c == trig.call
        IN  /\ c.out.override =>
                  /\ c.row.signal \in {"enter", "exit"}
                  /\ c.out.signal = "hold"
                  /\ c.out.confidence \in C29_Rounded(C29_RowConfidence(c))
            /\ (c.out.signal = "hold" /\ ~c.out.override) =>
                  /\ c.row.signal = "hold"
                  /\ c.out.confidence \in C29_Rounded(C29_HoldConfidence(c))
            /\ (c.out.signal = "hold") =>
                  (c.out.override <=> c.row.signal # "hold")

\* An exit overridden to hold whose confidence differs from the one the
\* hold row would have computed.
C29_Witness ==
    /\ trig.call.called
    /\ trig.call.out.override
    /\ trig.call.row.signal = "exit"
    /\ trig.call.out.signal = "hold"
    /\ trig.call.out.confidence \in C29_Rounded(C29_RowConfidence(trig.call))
    /\ trig.call.out.confidence \notin C29_Rounded(C29_HoldConfidence(trig.call))

\* ---------------------------------------------------------------------------
\* C30.  The direction head of predict computes up as the logistic of
\* 10 * (close - open) / open and down as its complement, subtracts the flat
\* band 0.1 from up and from down, each floored at 0, gives the rest to
\* flat and renormalises the three to sum to 1; the probabilities returned
\* are these, rounded to 4 decimals (compared here to within 1e-4).
C30_FlatBand == 2 * HALF_FLAT_BAND

C30_Near(x, p) == ~x.nan /\ Abs(x.v - RoundDiv(p, 100)) <= 1

C30_DirectionHead ==
    (/\ call.op = "liq_predict"
     /\ {"open", "close"} \subseteq DOMAIN call.ohlcv
     /\ Get(call.ohlcv, "open", 0) > 0) =>
        LET up    == Sigmoid(Ret10(call.ohlcv))
            down  == STAT_ONE - up
            pu    == Max(up - C30_FlatBand, 0)
            pd    == Max(down - C30_FlatBand, 0)
            pf    == STAT_ONE - pu - pd
        IN  /\ C30_Near(call.out.price_up_prob, pu)
            /\ C30_Near(call.out.price_flat_prob, pf)
            /\ C30_Near(call.out.price_down_prob, pd)

====
